---- MODULE Spec2Model ----
(***************************************************************************)
(* Multi-user authentication and per-user webhook registry of OpenHands.   *)
(*                                                                         *)
(* Spec         : the user directory, the password hasher and the token    *)
(*                issuer/verifier (routes/auth.py, user_store.py,          *)
(*                multi_user_auth.py).                                     *)
(* SpecWebhook  : the webhook registry (routes/webhook_management.py,      *)
(*                webhook_store.py) called by two resolved identities.     *)
(* SpecHash     : get_password_hash / verify_password applied to inputs    *)
(*                drawn in Init.                                           *)
(*                                                                         *)
(* Time is counted in minutes.  Python's None is the empty tuple and a     *)
(* present optional value v is <<v>>; strings that are compared without    *)
(* regard to case are tuples of characters.                                *)
(***************************************************************************)
EXTENDS Integers, Sequences, FiniteSets, TLC

\* ------------------------------------------------------------------ bounds
MaxUsers == 2
MaxTicks == 1
MaxWebhooks == 2
MaxLogs == 1
MaxStoredLogs == 3

\* ------------------------------------------------------- program constants
JWT_EXPIRATION_MINUTES == 1440
JWT_ALGORITHM == "HS256"
JWT_SECRET_KEY == "jwt-secret-key-of-this-process"
PBKDF2_ITERATIONS == 100000
HTTP_200_OK == 200
HTTP_201_CREATED == 201
HTTP_202_ACCEPTED == 202
HTTP_204_NO_CONTENT == 204
HTTP_400_BAD_REQUEST == 400
HTTP_401_UNAUTHORIZED == 401
HTTP_403_FORBIDDEN == 403
HTTP_404_NOT_FOUND == 404
HTTP_500_INTERNAL_SERVER_ERROR == 500

\* ------------------------------------------------------------ option type
None == <<>>
Some(v) == <<v>>

\* --------------------------------------------------------------- inputs
UserIds == 1..MaxUsers
Usernames == { <<"a","l">>, <<"A","l">>, <<"b","o">> }
Emails == { <<"a","@","x">>, <<"A","@","x">>, <<"b","@","x">> }
Passwords == { "password123", "wrong_password" }
Salts == { "openhands-salt", "salt-from-environment" }
HashInputs == { "password123", "wrong_password", "test_password_123",
                "securepassword123", "openhands", "Password123",
                "password124", "" }
ATTACKER_KEY == "key-of-another-party"
TickSteps == { JWT_EXPIRATION_MINUTES - 1, JWT_EXPIRATION_MINUTES }

VARIABLES
    user_store,        \* users/{id}.json, users/username_index.json, users/email_index.json
    next_uuid,         \* number of uuid4() values drawn for users so far
    PASSWORD_SALT,     \* os.environ['PASSWORD_SALT'] or its default
    now,               \* datetime.now(timezone.utc), in minutes
    ticks,             \* number of clock steps taken
    held_token,        \* the token the client holds (None before any is issued)
    webhook_configs,   \* webhooks/configs/{user_id}/{webhook_id}.json
    next_webhook_uuid, \* number of uuid4() values drawn for webhooks so far
    resp,              \* the request just handled and what its caller saw
    webhook_logs,      \* webhooks/logs/{user_id}/{log_id}.json
    next_log_uuid,     \* number of uuid4() values drawn for delivery logs so far
    github_webhook_secret, \* server_config.github_webhook_secret
    call,              \* the inbound delivery being handled: position and locals
    log_store_writable, \* whether file_store.write under webhooks/logs succeeds
    calls              \* the concurrent requests in flight: position and locals of each

vars == << user_store, next_uuid, PASSWORD_SALT, now, ticks, held_token,
           webhook_configs, next_webhook_uuid, resp,
           webhook_logs, next_log_uuid, github_webhook_secret, call,
           log_store_writable, calls >>

\* ------------------------------------------------------------- str.lower()
LowerChar(c) ==
    CASE c = "A" -> "a"
      [] c = "B" -> "b"
      [] c = "L" -> "l"
      [] c = "O" -> "o"
      [] c = "X" -> "x"
      [] OTHER -> c

lower(s) == [i \in DOMAIN s |-> LowerChar(s[i])]

\* dict[key] = value
DictSet(d, k, v) == [x \in DOMAIN d \cup {k} |-> IF x = k THEN v ELSE d[x]]

\* del dict[key]
DictDel(d, k) == [x \in DOMAIN d \ {k} |-> d[x]]

\* ------------------------------------------------------- Credential Hasher
\* get_password_hash that derives the key from the salt alone
get_password_hash_SaltOnly(password, salt) ==
    [kdf |-> "pbkdf2_hmac_sha256", password |-> "", salt |-> salt,
     iterations |-> PBKDF2_ITERATIONS]

get_password_hash(password, salt) ==
    [kdf |-> "pbkdf2_hmac_sha256", password |-> password, salt |-> salt,
     iterations |-> PBKDF2_ITERATIONS]

verify_password(plain_password, hashed_password, salt) ==
    get_password_hash(plain_password, salt) = hashed_password

\* ------------------------------------------------------------ Token Issuer
HS256(key, payload) == [alg |-> JWT_ALGORITHM, key |-> key, signed |-> payload]

create_access_token(data, expires_delta, t) ==
    LET expire == IF expires_delta # None THEN t + expires_delta[1]
                  ELSE t + JWT_EXPIRATION_MINUTES
        to_encode == [sub |-> data.sub, username |-> data.username,
                      email |-> data.email, exp |-> expire]
    IN  [wellformed |-> TRUE, payload |-> to_encode,
         mac |-> HS256(JWT_SECRET_KEY, to_encode)]

Unauthorized(detail) == [status |-> HTTP_401_UNAUTHORIZED, detail |-> detail,
                         payload |-> None, user |-> None]

\* decode_token with verify_signature switched off
decode_token_NoSignatureCheck(token, t) ==
    IF ~token.wellformed THEN Unauthorized("Could not validate credentials")
    ELSE IF token.payload.exp <= t
         THEN Unauthorized("Could not validate credentials")
    ELSE [status |-> HTTP_200_OK, detail |-> "", payload |-> Some(token.payload),
          user |-> None]

\* decode_token that still accepts a token at the instant it expires
decode_token_ExpiredOnlyAfter(token, t) ==
    IF ~token.wellformed THEN Unauthorized("Could not validate credentials")
    ELSE IF token.mac # HS256(JWT_SECRET_KEY, token.payload)
         THEN Unauthorized("Could not validate credentials")
    ELSE IF token.payload.exp < t
         THEN Unauthorized("Could not validate credentials")
    ELSE [status |-> HTTP_200_OK, detail |-> "", payload |-> Some(token.payload),
          user |-> None]

decode_token(token, t) ==
    IF ~token.wellformed THEN Unauthorized("Could not validate credentials")
    ELSE IF token.mac # HS256(JWT_SECRET_KEY, token.payload)
         THEN Unauthorized("Could not validate credentials")
    ELSE IF token.payload.exp <= t
         THEN Unauthorized("Could not validate credentials")
    ELSE [status |-> HTTP_200_OK, detail |-> "", payload |-> Some(token.payload),
          user |-> None]

\* ---------------------------------------------------------- User Directory
EmptyUserStore == [users |-> <<>>, username_index |-> <<>>, email_index |-> <<>>]

NotFound == [exc |-> "FileNotFoundError", user |-> None]
Found(user) == [exc |-> "none", user |-> Some(user)]

\* save_user that keys the indexes by the strings as typed
save_user_CaseSensitiveIndex(store, user) ==
    LET username_index ==
            IF user.username # <<>>
            THEN DictSet(store.username_index, user.username, user.user_id)
            ELSE store.username_index
        email_index ==
            IF user.email # <<>>
            THEN DictSet(store.email_index, user.email, user.user_id)
            ELSE store.email_index
    IN  [users |-> DictSet(store.users, user.user_id, user),
         username_index |-> username_index,
         email_index |-> email_index]

save_user(store, user) ==
    LET username_index ==
            IF user.username # <<>>
            THEN DictSet(store.username_index, lower(user.username), user.user_id)
            ELSE store.username_index
        email_index ==
            IF user.email # <<>>
            THEN DictSet(store.email_index, lower(user.email), user.user_id)
            ELSE store.email_index
    IN  [users |-> DictSet(store.users, user.user_id, user),
         username_index |-> username_index,
         email_index |-> email_index]

get_user(store, user_id) ==
    IF user_id \in DOMAIN store.users THEN Found(store.users[user_id]) ELSE NotFound

get_user_by_username(store, username) ==
    IF lower(username) \notin DOMAIN store.username_index THEN NotFound
    ELSE get_user(store, store.username_index[lower(username)])

\* get_user_by_email that looks the address up as typed
get_user_by_email_CaseSensitive(store, email) ==
    IF email \notin DOMAIN store.email_index THEN NotFound
    ELSE get_user(store, store.email_index[email])

get_user_by_email(store, email) ==
    IF lower(email) \notin DOMAIN store.email_index THEN NotFound
    ELSE get_user(store, store.email_index[lower(email)])

\* delete_user that removes the user file and leaves the two indexes alone
delete_user_KeepsIndex(store, user_id) ==
    LET got == get_user(store, user_id) IN
    IF got.exc # "none" THEN store
    ELSE [users |-> DictDel(store.users, user_id),
          username_index |-> store.username_index,
          email_index |-> store.email_index]

delete_user(store, user_id) ==
    LET got == get_user(store, user_id) IN
    IF got.exc # "none" THEN store
    ELSE LET user == got.user[1]
             username_index ==
                 IF user.username # <<>> /\ lower(user.username) \in DOMAIN store.username_index
                 THEN DictDel(store.username_index, lower(user.username))
                 ELSE store.username_index
             email_index ==
                 IF user.email # <<>> /\ lower(user.email) \in DOMAIN store.email_index
                 THEN DictDel(store.email_index, lower(user.email))
                 ELSE store.email_index
         IN  [users |-> DictDel(store.users, user_id),
              username_index |-> username_index,
              email_index |-> email_index]

\* authenticate_user that records the attempt before it checks the password
authenticate_user_TouchesBeforeVerify(store, username, password, salt, t) ==
    LET got == get_user_by_username(store, username) IN
    IF got.exc # "none" THEN [store |-> store, user |-> None]
    ELSE LET user == got.user[1]
             logged == [user EXCEPT !.last_login = Some(t)]
         IN  IF /\ user.password_hash # None
                /\ verify_password(password, user.password_hash[1], salt)
             THEN [store |-> save_user(store, logged), user |-> Some(logged)]
             ELSE [store |-> save_user(store, logged), user |-> None]

\* authenticate_user that saves a rebuilt record, so created_at takes its default
authenticate_user_RebuildsRecord(store, username, password, salt, t) ==
    LET got == get_user_by_username(store, username) IN
    IF got.exc # "none" THEN [store |-> store, user |-> None]
    ELSE LET user == got.user[1] IN
         IF /\ user.password_hash # None
            /\ verify_password(password, user.password_hash[1], salt)
         THEN LET logged == [user EXCEPT !.last_login = Some(t), !.created_at = t] IN
              [store |-> save_user(store, logged), user |-> Some(logged)]
         ELSE [store |-> store, user |-> None]

authenticate_user(store, username, password, salt, t) ==
    LET got == get_user_by_username(store, username) IN
    IF got.exc # "none" THEN [store |-> store, user |-> None]
    ELSE LET user == got.user[1] IN
         IF /\ user.password_hash # None
            /\ verify_password(password, user.password_hash[1], salt)
         THEN LET logged == [user EXCEPT !.last_login = Some(t)] IN
              [store |-> save_user(store, logged), user |-> Some(logged)]
         ELSE [store |-> store, user |-> None]

create_user(store, username, email, password, uuid, salt, t) ==
    IF get_user_by_username(store, username).exc = "none"
    THEN [exc |-> "ValueError", detail |-> <<"Username already exists", username>>,
          store |-> store, user |-> None]
    ELSE IF get_user_by_email(store, email).exc = "none"
    THEN [exc |-> "ValueError", detail |-> <<"Email already exists", email>>,
          store |-> store, user |-> None]
    ELSE LET user == [user_id |-> uuid,
                      username |-> username,
                      email |-> email,
                      password_hash |-> Some(get_password_hash(password, salt)),
                      github_id |-> None,
                      gitlab_id |-> None,
                      bitbucket_id |-> None,
                      created_at |-> t,
                      last_login |-> None,
                      is_active |-> TRUE,
                      email_verified |-> FALSE]
         IN  [exc |-> "none", detail |-> <<>>, store |-> save_user(store, user),
              user |-> Some(user)]

get_current_user_from_token(store, token, t) ==
    LET decoded == decode_token(token, t) IN
    IF decoded.status # HTTP_200_OK THEN decoded
    ELSE LET user_id == decoded.payload[1].sub IN
         IF user_id = None THEN Unauthorized("Invalid authentication credentials")
         ELSE LET got == get_user(store, user_id[1]) IN
              IF got.exc # "none" THEN Unauthorized("User not found")
              ELSE [status |-> HTTP_200_OK, detail |-> "",
                    payload |-> decoded.payload, user |-> got.user]

\* ------------------------------------------------------------ /api/auth
UserResponse(user) ==
    [user_id |-> user.user_id, username |-> user.username, email |-> user.email,
     created_at |-> user.created_at, last_login |-> user.last_login,
     email_verified |-> user.email_verified]

register_user(store, username, email, password, uuid, salt, t) ==
    LET made == create_user(store, username, email, password, uuid, salt, t) IN
    IF made.exc = "none"
    THEN [store |-> made.store, status |-> HTTP_201_CREATED, detail |-> <<>>,
          body |-> Some(UserResponse(made.user[1]))]
    ELSE [store |-> made.store, status |-> HTTP_400_BAD_REQUEST,
          detail |-> made.detail, body |-> None]

\* login that tells the caller when the username is not registered
login_for_access_token_NamesCause(store, username, password, salt, t) ==
    LET auth == authenticate_user(store, username, password, salt, t) IN
    IF auth.user = None
    THEN [store |-> auth.store, status |-> HTTP_401_UNAUTHORIZED,
          detail |-> IF get_user_by_username(store, username).exc # "none"
                     THEN "User not found" ELSE "Invalid username or password",
          token |-> None, expires_at |-> None, user |-> None]
    ELSE LET user == auth.user[1]
             access_token ==
                 create_access_token([sub |-> Some(user.user_id),
                                      username |-> user.username,
                                      email |-> user.email],
                                     Some(JWT_EXPIRATION_MINUTES), t)
         IN  [store |-> auth.store, status |-> HTTP_200_OK, detail |-> "",
              token |-> Some(access_token),
              expires_at |-> Some(t + JWT_EXPIRATION_MINUTES),
              user |-> auth.user]

login_for_access_token(store, username, password, salt, t) ==
    LET auth == authenticate_user(store, username, password, salt, t) IN
    IF auth.user = None
    THEN [store |-> auth.store, status |-> HTTP_401_UNAUTHORIZED,
          detail |-> "Invalid username or password", token |-> None,
          expires_at |-> None, user |-> None]
    ELSE LET user == auth.user[1]
             access_token ==
                 create_access_token([sub |-> Some(user.user_id),
                                      username |-> user.username,
                                      email |-> user.email],
                                     Some(JWT_EXPIRATION_MINUTES), t)
         IN  [store |-> auth.store, status |-> HTTP_200_OK, detail |-> "",
              token |-> Some(access_token),
              expires_at |-> Some(t + JWT_EXPIRATION_MINUTES),
              user |-> auth.user]

\* -------------------------------------------------------- Webhook Registry
WebhookNotFound == [exc |-> "FileNotFoundError", config |-> None]
WebhookFound(config) == [exc |-> "none", config |-> Some(config)]

get_webhook_config_path(self_user_id, webhook_id) == << self_user_id, webhook_id >>

get_webhook_configs_dir(files, self_user_id) ==
    { path \in DOMAIN files : path[1] = self_user_id }

create_webhook_config(user_id, name, url, events, repository, secret, uuid, t) ==
    [webhook_id |-> uuid,
     user_id |-> user_id,
     name |-> name,
     url |-> url,
     events |-> events,
     repository |-> repository,
     secret |-> IF secret # None /\ secret[1] # "" THEN secret ELSE None,
     status |-> "active",
     created_at |-> t,
     updated_at |-> t]

\* what a SecretStr field becomes in JSON: the model declares no serializer for
\* it, so the value is replaced by its display form
SECRET_DISPLAY == "**********"
secret_display(value) == IF value = "" THEN "" ELSE SECRET_DISPLAY

\* line 118: webhook_config_type_adapter.dump_json(config), as the configuration
\* that validate_json reads back from it
dump_json(config) ==
    [config EXCEPT !.secret = IF @ = None THEN None ELSE Some(secret_display(@[1]))]

\* save_webhook_config without line 115: updated_at is written as it is
save_webhook_config_KeepsUpdatedAt(files, self_user_id, config, t) ==
    IF config.user_id # self_user_id
    THEN [exc |-> "ValueError", files |-> files, config |-> config]
    ELSE [exc |-> "none",
          files |-> DictSet(files,
                            get_webhook_config_path(self_user_id, config.webhook_id),
                            dump_json(config)),
          config |-> config]

save_webhook_config(files, self_user_id, config, t) ==
    IF config.user_id # self_user_id
    THEN [exc |-> "ValueError", files |-> files, config |-> config]
    ELSE LET saved == [config EXCEPT !.updated_at = t] IN
         [exc |-> "none",
          files |-> DictSet(files,
                            get_webhook_config_path(self_user_id, saved.webhook_id),
                            dump_json(saved)),
          config |-> saved]

get_webhook_config(files, self_user_id, webhook_id) ==
    LET path == get_webhook_config_path(self_user_id, webhook_id) IN
    IF path \notin DOMAIN files THEN WebhookNotFound
    ELSE IF files[path].user_id # self_user_id THEN WebhookNotFound
    ELSE WebhookFound(files[path])

delete_webhook_config(files, self_user_id, webhook_id) ==
    IF get_webhook_config(files, self_user_id, webhook_id).exc # "none" THEN files
    ELSE DictDel(files, get_webhook_config_path(self_user_id, webhook_id))

\* list_webhook_configs that walks the directory of all users' configurations
list_webhook_configs_AllUsers(files, self_user_id, user_id) ==
    IF user_id # self_user_id THEN [exc |-> "ValueError", configs |-> {}]
    ELSE [exc |-> "none", configs |-> { files[path] : path \in DOMAIN files }]

list_webhook_configs(files, self_user_id, user_id) ==
    IF user_id # self_user_id THEN [exc |-> "ValueError", configs |-> {}]
    ELSE [exc |-> "none",
          configs |-> { files[path] :
                          path \in { q \in get_webhook_configs_dir(files, self_user_id) :
                                       files[q].user_id = self_user_id } }]

\* ------------------------------------------------------ /api/webhooks/configs
WebhookConfigResponse(webhook) ==
    [webhook_id |-> webhook.webhook_id, name |-> webhook.name, url |-> webhook.url,
     events |-> webhook.events, repository |-> webhook.repository,
     status |-> webhook.status, created_at |-> webhook.created_at,
     updated_at |-> webhook.updated_at]

WebhookError(files, status) == [files |-> files, status |-> status, returned |-> {}]

create_webhook(files, current_user_id, webhook_data, uuid, t) ==
    LET webhook == create_webhook_config(current_user_id, webhook_data.name,
                                         webhook_data.url, webhook_data.events,
                                         webhook_data.repository,
                                         webhook_data.secret, uuid, t)
        saved == save_webhook_config(files, current_user_id, webhook, t)
    IN  IF saved.exc # "none"
        THEN WebhookError(files, HTTP_500_INTERNAL_SERVER_ERROR)
        ELSE [files |-> saved.files, status |-> HTTP_201_CREATED,
              returned |-> {WebhookConfigResponse(saved.config)}]

list_webhooks(files, current_user_id) ==
    LET listed == list_webhook_configs(files, current_user_id, current_user_id) IN
    IF listed.exc # "none" THEN WebhookError(files, HTTP_500_INTERNAL_SERVER_ERROR)
    ELSE [files |-> files, status |-> HTTP_200_OK,
          returned |-> { WebhookConfigResponse(c) : c \in listed.configs }]

\* get_webhook over a store that finds a registration by its id under any owner
get_webhook_AcrossOwners(files, current_user_id, webhook_id) ==
    LET found == { path \in DOMAIN files : files[path].webhook_id = webhook_id } IN
    IF found = {} THEN WebhookError(files, HTTP_404_NOT_FOUND)
    ELSE IF \A path \in found : files[path].user_id # current_user_id
         THEN WebhookError(files, HTTP_403_FORBIDDEN)
    ELSE [files |-> files, status |-> HTTP_200_OK,
          returned |-> { WebhookConfigResponse(files[path]) :
                           path \in { q \in found : files[q].user_id = current_user_id } }]

get_webhook(files, current_user_id, webhook_id) ==
    LET got == get_webhook_config(files, current_user_id, webhook_id) IN
    IF got.exc # "none" THEN WebhookError(files, HTTP_404_NOT_FOUND)
    ELSE IF got.config[1].user_id # current_user_id
         THEN WebhookError(files, HTTP_403_FORBIDDEN)
    ELSE [files |-> files, status |-> HTTP_200_OK,
          returned |-> {WebhookConfigResponse(got.config[1])}]

Overwrite(old, supplied) == IF supplied # None THEN supplied[1] ELSE old

\* update_webhook over a store that finds a registration by its id under any owner
update_webhook_AcrossOwners(files, current_user_id, webhook_id, webhook_data, t) ==
    LET found == { path \in DOMAIN files : files[path].webhook_id = webhook_id }
        got == get_webhook_config(files, current_user_id, webhook_id)
    IN
    IF found = {} THEN WebhookError(files, HTTP_404_NOT_FOUND)
    ELSE IF got.exc # "none" THEN WebhookError(files, HTTP_403_FORBIDDEN)
    ELSE LET old == got.config[1]
             webhook ==
                 [old EXCEPT
                    !.name = Overwrite(@, webhook_data.name),
                    !.url = Overwrite(@, webhook_data.url),
                    !.events = Overwrite(@, webhook_data.events),
                    !.repository = IF webhook_data.repository # None
                                   THEN webhook_data.repository ELSE @,
                    !.secret = IF webhook_data.secret # None
                               THEN webhook_data.secret ELSE @,
                    !.status = Overwrite(@, webhook_data.status)]
             saved == save_webhook_config(files, current_user_id, webhook, t)
         IN  IF saved.exc # "none"
             THEN WebhookError(files, HTTP_500_INTERNAL_SERVER_ERROR)
             ELSE [files |-> saved.files, status |-> HTTP_200_OK,
                   returned |-> {WebhookConfigResponse(saved.config)}]

update_webhook(files, current_user_id, webhook_id, webhook_data, t) ==
    LET got == get_webhook_config(files, current_user_id, webhook_id) IN
    IF got.exc # "none" THEN WebhookError(files, HTTP_404_NOT_FOUND)
    ELSE IF got.config[1].user_id # current_user_id
         THEN WebhookError(files, HTTP_403_FORBIDDEN)
    ELSE LET old == got.config[1]
             webhook ==
                 [old EXCEPT
                    !.name = Overwrite(@, webhook_data.name),
                    !.url = Overwrite(@, webhook_data.url),
                    !.events = Overwrite(@, webhook_data.events),
                    !.repository = IF webhook_data.repository # None
                                   THEN webhook_data.repository ELSE @,
                    !.secret = IF webhook_data.secret # None
                               THEN webhook_data.secret ELSE @,
                    !.status = Overwrite(@, webhook_data.status)]
             saved == save_webhook_config(files, current_user_id, webhook, t)
         IN  IF saved.exc # "none"
             THEN WebhookError(files, HTTP_500_INTERNAL_SERVER_ERROR)
             ELSE [files |-> saved.files, status |-> HTTP_200_OK,
                   returned |-> {WebhookConfigResponse(saved.config)}]

\* delete_webhook that answers 404 for an id that is not stored
delete_webhook_NotFoundOnMissing(files, current_user_id, webhook_id) ==
    LET got == get_webhook_config(files, current_user_id, webhook_id) IN
    IF got.exc # "none"
    THEN WebhookError(files, HTTP_404_NOT_FOUND)
    ELSE IF got.config[1].user_id # current_user_id
         THEN WebhookError(files, HTTP_403_FORBIDDEN)
    ELSE [files |-> delete_webhook_config(files, current_user_id, webhook_id),
          status |-> HTTP_204_NO_CONTENT, returned |-> {}]

delete_webhook(files, current_user_id, webhook_id) ==
    LET got == get_webhook_config(files, current_user_id, webhook_id) IN
    IF got.exc # "none"
    THEN [files |-> files, status |-> HTTP_204_NO_CONTENT, returned |-> {}]
    ELSE IF got.config[1].user_id # current_user_id
         THEN WebhookError(files, HTTP_403_FORBIDDEN)
    ELSE [files |-> delete_webhook_config(files, current_user_id, webhook_id),
          status |-> HTTP_204_NO_CONTENT, returned |-> {}]

\* ------------------------------------------------- Inbound Webhook Dispatcher
\* request bodies, as the bytes that arrive
BODY_PR_OPENED == "{action: opened, pull_request: {number: 7}, repository: {full_name: user1/repo}, sender: {login: octocat}}"
BODY_PR_CLOSED == "{action: closed, pull_request: {number: 7}, repository: {full_name: user1/repo}, sender: {login: octocat}}"
BODY_PR_OPENED_NO_SENDER == "{action: opened, pull_request: {number: 7}, repository: {full_name: user1/repo}}"
BODY_PR_CLOSED_NO_SENDER == "{action: closed, pull_request: {number: 7}, repository: {full_name: user1/repo}}"
BODY_ISSUE_OPENED == "{action: opened, issue: {number: 3}, repository: {full_name: user1/repo}, sender: {login: octocat}}"
BODY_NOT_JSON == "payload=%7B%22action%22%3A%22opened%22%7D"

PullRequest7 == [number |-> 7]
Repo == [full_name |-> "user1/repo"]
Octocat == [login |-> "octocat"]

\* json.loads(body)
json_loads(body) ==
    CASE body = BODY_PR_OPENED ->
           [exc |-> "none",
            value |-> Some([action |-> Some("opened"), pull_request |-> Some(PullRequest7),
                            repository |-> Some(Repo), sender |-> Some(Octocat)])]
      [] body = BODY_PR_CLOSED ->
           [exc |-> "none",
            value |-> Some([action |-> Some("closed"), pull_request |-> Some(PullRequest7),
                            repository |-> Some(Repo), sender |-> Some(Octocat)])]
      [] body = BODY_PR_OPENED_NO_SENDER ->
           [exc |-> "none",
            value |-> Some([action |-> Some("opened"), pull_request |-> Some(PullRequest7),
                            repository |-> Some(Repo), sender |-> None])]
      [] body = BODY_PR_CLOSED_NO_SENDER ->
           [exc |-> "none",
            value |-> Some([action |-> Some("closed"), pull_request |-> Some(PullRequest7),
                            repository |-> Some(Repo), sender |-> None])]
      [] body = BODY_ISSUE_OPENED ->
           [exc |-> "none",
            value |-> Some([action |-> Some("opened"), pull_request |-> None,
                            repository |-> Some(Repo), sender |-> Some(Octocat)])]
      [] OTHER -> [exc |-> "JSONDecodeError", value |-> None]

\* hmac.new(key.encode(), msg=body, digestmod='sha256').hexdigest()
hmac_sha256_hexdigest(key, msg) == [digestmod |-> "sha256", key |-> key, msg |-> msg]

\* the hex digest alone, without the 'sha256=' prefix
expected_signature_NoPrefix(key, msg) ==
    [prefix |-> "", hexdigest |-> Some(hmac_sha256_hexdigest(key, msg))]

\* f'sha256={signature}'
expected_signature(key, msg) ==
    [prefix |-> "sha256=", hexdigest |-> Some(hmac_sha256_hexdigest(key, msg))]

\* an X-Hub-Signature-256 header sent with no value
EmptySignature == [prefix |-> "", hexdigest |-> None]

\* truth value of an Optional[str] / Optional[SecretStr]
Truthy(s) == s # None /\ s[1] # ""

\* truth value of the x_hub_signature_256 parameter
SignatureTruthy(x_hub_signature_256) ==
    x_hub_signature_256 # None /\ x_hub_signature_256[1] # EmptySignature

\* GitHubWebhookPayload(**payload_dict): action, repository and sender are required
GitHubWebhookPayload(payload_dict) ==
    IF \/ payload_dict.action = None
       \/ payload_dict.repository = None
       \/ payload_dict.sender = None
    THEN [exc |-> "ValidationError", payload |-> None]
    ELSE [exc |-> "none",
          payload |-> Some([action |-> payload_dict.action[1],
                            pull_request |-> payload_dict.pull_request,
                            repository |-> payload_dict.repository[1],
                            sender |-> payload_dict.sender[1]])]

get_webhook_log_path(self_user_id, log_id) == << self_user_id, log_id >>

\* create_webhook_log that ignores the status it is given
create_webhook_log_StartsSuccess(webhook_id, user_id, event_type, repository, pr_number, status, request_payload, uuid, t) ==
    [log_id |-> uuid,
     webhook_id |-> webhook_id,
     user_id |-> user_id,
     event_type |-> event_type,
     repository |-> repository,
     pr_number |-> pr_number,
     status |-> "success",
     request_payload |-> request_payload,
     response_status |-> None,
     response_body |-> None,
     error_message |-> None,
     created_at |-> t]

create_webhook_log(webhook_id, user_id, event_type, repository, pr_number, status, request_payload, uuid, t) ==
    [log_id |-> uuid,
     webhook_id |-> webhook_id,
     user_id |-> user_id,
     event_type |-> event_type,
     repository |-> repository,
     pr_number |-> pr_number,
     status |-> status,
     request_payload |-> request_payload,
     response_status |-> None,
     response_body |-> None,
     error_message |-> None,
     created_at |-> t]

\* save_webhook_log without lines 187-188: a log of any owner is written
save_webhook_log_AnyOwner(files, self_user_id, log) ==
    IF ~log_store_writable
    THEN [exc |-> "OSError", files |-> files]
    ELSE [exc |-> "none",
          files |-> DictSet(files, get_webhook_log_path(self_user_id, log.log_id), log)]

save_webhook_log(files, self_user_id, log) ==
    IF log.user_id # self_user_id
    THEN [exc |-> "ValueError", files |-> files]
    ELSE IF ~log_store_writable
    THEN [exc |-> "OSError", files |-> files]
    ELSE [exc |-> "none",
          files |-> DictSet(files, get_webhook_log_path(self_user_id, log.log_id), log)]

WebhookLogNotFound == [exc |-> "FileNotFoundError", log |-> None]

get_webhook_log(files, self_user_id, log_id) ==
    LET path == get_webhook_log_path(self_user_id, log_id) IN
    IF path \notin DOMAIN files THEN WebhookLogNotFound
    ELSE IF files[path].user_id # self_user_id THEN WebhookLogNotFound
    ELSE [exc |-> "none", log |-> Some(files[path])]

get_webhook_logs_dir(files, self_user_id) ==
    { path \in DOMAIN files : path[1] = self_user_id }

\* lines 227-244: the loop over the listed files, which stops as soon as `limit`
\* logs have been collected
RECURSIVE CollectLogs(_, _, _, _, _, _, _)
CollectLogs(files, listing, self_user_id, webhook_id, limit, i, logs) ==
    IF i > Len(listing) THEN logs
    ELSE LET log == files[listing[i]] IN
         IF /\ log.user_id = self_user_id
            /\ (webhook_id = None \/ log.webhook_id = webhook_id[1])
         THEN IF Len(logs) + 1 >= limit
              THEN Append(logs, log)
              ELSE CollectLogs(files, listing, self_user_id, webhook_id, limit,
                               i + 1, Append(logs, log))
         ELSE CollectLogs(files, listing, self_user_id, webhook_id, limit, i + 1, logs)

\* line 250: logs.sort(key=lambda x: x.created_at, reverse=True), a stable sort
RECURSIVE InsertNewestFirst(_, _)
InsertNewestFirst(sorted, log) ==
    IF sorted = << >> THEN << log >>
    ELSE IF Head(sorted).created_at >= log.created_at
         THEN << Head(sorted) >> \o InsertNewestFirst(Tail(sorted), log)
         ELSE << log >> \o sorted

RECURSIVE SortNewestFirst(_)
SortNewestFirst(logs) ==
    IF logs = << >> THEN << >>
    ELSE InsertNewestFirst(SortNewestFirst(SubSeq(logs, 1, Len(logs) - 1)),
                           logs[Len(logs)])

\* logs[:limit] for limit >= 0
Truncate(logs, limit) ==
    SubSeq(logs, 1, IF limit < Len(logs) THEN limit ELSE Len(logs))

\* lines 211-253; listing is what file_store.list returned for the directory
list_webhook_logs(files, self_user_id, user_id, webhook_id, limit, listing) ==
    IF user_id # self_user_id THEN [exc |-> "ValueError", logs |-> << >>]
    ELSE [exc |-> "none",
          logs |-> Truncate(SortNewestFirst(
                                CollectLogs(files, listing, self_user_id, webhook_id,
                                            limit, 1, << >>)),
                            limit)]

\* ----------------------------------------------------- POST /api/webhooks/github
\* the processed actions with "closed" among them
PROCESSED_ACTIONS_WithClosed == { "opened", "synchronize", "reopened", "closed" }

PROCESSED_ACTIONS == { "opened", "synchronize", "reopened" }

\* the empty string given as an id (the ids of the model are numbers)
EmptyId == 0

\* truth value of the user_id and webhook_id parameters
IdTruthy(id) == id # None /\ id[1] # EmptyId

\* user_id and webhook_id
Paired(request) == IdTruthy(request.user_id) /\ IdTruthy(request.webhook_id)

\* lines 49-87 without the except of lines 85-87: a log that cannot be created
\* or saved ends the call
github_webhook_receive_SurfacesLogFailure(logs, request, uuid, t) ==
    LET parsed == json_loads(request.body)
        bound == parsed.exc = "none"
        repo_full_name ==
            IF ~bound THEN None
            ELSE IF parsed.value[1].repository = None THEN Some("")
            ELSE Some(parsed.value[1].repository[1].full_name)
        pr_number ==
            IF bound /\ request.x_github_event = "pull_request"
                     /\ parsed.value[1].pull_request # None
            THEN Some(parsed.value[1].pull_request[1].number)
            ELSE None
        \* create_webhook_log(request_payload=payload_dict) raises when the name
        \* payload_dict was never bound; the exception is logged and swallowed
        created == Paired(request) /\ bound
        webhook_log ==
            IF created
            THEN Some(create_webhook_log(
                          request.webhook_id[1], request.user_id[1],
                          IF request.x_github_event = "pull_request"
                          THEN "pull_request" ELSE "all",
                          repo_full_name, pr_number, "pending", parsed.value[1],
                          uuid, t))
            ELSE None
        written == created /\ save_webhook_log(logs, request.user_id[1],
                                                webhook_log[1]).exc = "none"
    IN  [call |-> [pc |-> IF Paired(request) /\ ~written THEN "done" ELSE "verify",
                   request |-> request,
                   payload_dict |-> parsed.value,
                   webhook_log |-> webhook_log,
                   webhook_store |-> IF Paired(request) THEN request.user_id ELSE None,
                   webhook_secret |-> None,
                   verification |-> "not reached",
                   engine_calls |-> 0,
                   response |->
                       IF Paired(request) /\ ~written
                       THEN Some([status |-> HTTP_500_INTERNAL_SERVER_ERROR,
                                  body |-> [detail |-> "Internal Server Error"]])
                       ELSE None],
         logs |-> IF created
                  THEN save_webhook_log(logs, request.user_id[1], webhook_log[1]).files
                  ELSE logs]

\* lines 49-87: read the body, parse it for the logging fields, create and save
\* the PENDING log entry
github_webhook_receive(logs, request, uuid, t) ==
    LET parsed == json_loads(request.body)
        bound == parsed.exc = "none"
        repo_full_name ==
            IF ~bound THEN None
            ELSE IF parsed.value[1].repository = None THEN Some("")
            ELSE Some(parsed.value[1].repository[1].full_name)
        pr_number ==
            IF bound /\ request.x_github_event = "pull_request"
                     /\ parsed.value[1].pull_request # None
            THEN Some(parsed.value[1].pull_request[1].number)
            ELSE None
        \* create_webhook_log(request_payload=payload_dict) raises when the name
        \* payload_dict was never bound; the exception is logged and swallowed
        created == Paired(request) /\ bound
        webhook_log ==
            IF created
            THEN Some(create_webhook_log(
                          request.webhook_id[1], request.user_id[1],
                          IF request.x_github_event = "pull_request"
                          THEN "pull_request" ELSE "all",
                          repo_full_name, pr_number, "pending", parsed.value[1],
                          uuid, t))
            ELSE None
    IN  [call |-> [pc |-> "verify",
                   request |-> request,
                   payload_dict |-> parsed.value,
                   webhook_log |-> webhook_log,
                   webhook_store |-> IF Paired(request) THEN request.user_id ELSE None,
                   webhook_secret |-> None,
                   verification |-> "not reached",
                   engine_calls |-> 0,
                   response |-> None],
         logs |-> IF created
                  THEN save_webhook_log(logs, request.user_id[1], webhook_log[1]).files
                  ELSE logs]

\* the update that changes the entry in memory and does not save it
update_log_entry_MemoryOnly(logs, c, status, response_status, error_message) ==
    IF c.webhook_log # None /\ c.webhook_store # None
    THEN LET entry == [c.webhook_log[1] EXCEPT
                          !.status = status,
                          !.response_status =
                              IF response_status # None THEN response_status ELSE @,
                          !.error_message =
                              IF error_message # None THEN error_message ELSE @]
         IN  [webhook_log |-> Some(entry), logs |-> logs, exc |-> "none"]
    ELSE [webhook_log |-> c.webhook_log, logs |-> logs, exc |-> "none"]

\* lines 117-121, 191-195, 199-204, 219-223: if webhook_log and webhook_store,
\* set the fields on the entry and save it
update_log_entry(logs, c, status, response_status, error_message) ==
    IF c.webhook_log # None /\ c.webhook_store # None
    THEN LET entry == [c.webhook_log[1] EXCEPT
                          !.status = status,
                          !.response_status =
                              IF response_status # None THEN response_status ELSE @,
                          !.error_message =
                              IF error_message # None THEN error_message ELSE @]
             saved == save_webhook_log(logs, c.webhook_store[1], entry)
         IN  [webhook_log |-> Some(entry), logs |-> saved.files, exc |-> saved.exc]
    ELSE [webhook_log |-> c.webhook_log, logs |-> logs, exc |-> "none"]

\* an exception that leaves the handler outside its try blocks: the server
\* answers 500
Unhandled(c, webhook_log, logs) ==
    [call |-> [c EXCEPT !.pc = "done",
                        !.webhook_log = webhook_log,
                        !.response =
                            Some([status |-> HTTP_500_INTERNAL_SERVER_ERROR,
                                  body |-> [detail |-> "Internal Server Error"]])],
     logs |-> logs]

\* lines 90-103 with the global secret taking precedence
resolve_webhook_secret_GlobalFirst(configs, c, global_secret) ==
    IF Truthy(global_secret) THEN global_secret
    ELSE IF Paired(c.request) /\ c.webhook_store # None
    THEN LET got == get_webhook_config(configs, c.webhook_store[1],
                                       c.request.webhook_id[1]) IN
         IF got.exc = "none" /\ Truthy(got.config[1].secret)
         THEN got.config[1].secret
         ELSE global_secret
    ELSE global_secret

\* lines 90-103: the registration's secret, else the global one
resolve_webhook_secret(configs, c, global_secret) ==
    LET own ==
            IF Paired(c.request) /\ c.webhook_store # None
            THEN LET got == get_webhook_config(configs, c.webhook_store[1],
                                               c.request.webhook_id[1]) IN
                 IF got.exc = "none" /\ Truthy(got.config[1].secret)
                 THEN got.config[1].secret
                 ELSE None
            ELSE None
    IN  IF Truthy(own) THEN own ELSE global_secret

\* the check that records a mismatch on the log entry and lets the call go on
github_webhook_verify_MarksAndContinues(configs, logs, global_secret, c) ==
    LET webhook_secret == resolve_webhook_secret(configs, c, global_secret)
        x_hub_signature_256 == c.request.x_hub_signature_256
    IN  IF Truthy(webhook_secret) /\ SignatureTruthy(x_hub_signature_256)
        THEN IF expected_signature(webhook_secret[1], c.request.body)
                    # x_hub_signature_256[1]
             THEN LET u == update_log_entry(logs, c, "failure", None,
                                            Some("Invalid webhook signature")) IN
                  [call |-> [c EXCEPT !.pc = "dispatch",
                                      !.webhook_secret = webhook_secret,
                                      !.verification = "failed",
                                      !.webhook_log = u.webhook_log],
                   logs |-> u.logs]
             ELSE [call |-> [c EXCEPT !.pc = "dispatch",
                                      !.webhook_secret = webhook_secret,
                                      !.verification = "passed"],
                   logs |-> logs]
        ELSE [call |-> [c EXCEPT !.pc = "dispatch",
                                 !.webhook_secret = webhook_secret,
                                 !.verification = "skipped"],
              logs |-> logs]

\* lines 89-125: resolve the secret, check the signature when there is both a
\* secret and a signature
github_webhook_verify(configs, logs, global_secret, c) ==
    LET webhook_secret == resolve_webhook_secret(configs, c, global_secret)
        x_hub_signature_256 == c.request.x_hub_signature_256
    IN  IF Truthy(webhook_secret) /\ SignatureTruthy(x_hub_signature_256)
        THEN IF expected_signature(webhook_secret[1], c.request.body)
                    # x_hub_signature_256[1]
             THEN LET u == update_log_entry(logs, c, "failure", None,
                                            Some("Invalid webhook signature"))
                      failed == [c EXCEPT !.webhook_secret = webhook_secret,
                                          !.verification = "failed"]
                  IN
                  \* line 121: save_webhook_log is awaited outside any try
                  IF u.exc # "none" THEN Unhandled(failed, u.webhook_log, u.logs)
                  ELSE
                  [call |-> [failed EXCEPT
                                      !.pc = "done",
                                      !.webhook_log = u.webhook_log,
                                      !.response =
                                          Some([status |-> HTTP_401_UNAUTHORIZED,
                                                body |-> [detail |-> "Invalid signature"]])],
                   logs |-> u.logs]
             ELSE [call |-> [c EXCEPT !.pc = "dispatch",
                                      !.webhook_secret = webhook_secret,
                                      !.verification = "passed"],
                   logs |-> logs]
        ELSE [call |-> [c EXCEPT !.pc = "dispatch",
                                 !.webhook_secret = webhook_secret,
                                 !.verification = "skipped"],
              logs |-> logs]

\* the except branch that reports an internal fault
github_webhook_failed_InternalError(logs, c, error) ==
    LET u == update_log_entry(logs, c, "failure", None, Some(error)) IN
    [call |-> [c EXCEPT !.pc = "done",
                        !.webhook_log = u.webhook_log,
                        !.response =
                            Some([status |-> HTTP_500_INTERNAL_SERVER_ERROR,
                                  body |-> [detail |-> << "Error processing webhook: ",
                                                          error >>]])],
     logs |-> u.logs]

\* lines 212-228: the except branch
github_webhook_failed(logs, c, error) ==
    LET u == update_log_entry(logs, c, "failure", None, Some(error)) IN
    \* line 223: save_webhook_log is awaited inside the except branch
    IF u.exc # "none" THEN Unhandled(c, u.webhook_log, u.logs) ELSE
    [call |-> [c EXCEPT !.pc = "done",
                        !.webhook_log = u.webhook_log,
                        !.response =
                            Some([status |-> HTTP_400_BAD_REQUEST,
                                  body |-> [detail |-> << "Error processing webhook: ",
                                                          error >>]])],
     logs |-> u.logs]

\* f'Event {x_github_event} with action {payload_dict.get("action")} not processed'
NotProcessed(x_github_event, action) ==
    << "Event ", x_github_event, " with action ", action, " not processed" >>

\* lines 199-210: the event is not one that is processed
github_webhook_ignored(logs, c) ==
    IF c.payload_dict = None
    THEN github_webhook_failed(logs, c, "UnboundLocalError: payload_dict")
    ELSE LET message == NotProcessed(c.request.x_github_event,
                                     c.payload_dict[1].action)
             u == update_log_entry(logs, c, "success", Some(HTTP_200_OK), Some(message))
         IN  \* line 204: a save that raises is caught by the except of line 212
             IF u.exc # "none"
             THEN github_webhook_failed(u.logs, [c EXCEPT !.webhook_log = u.webhook_log],
                                        u.exc)
             ELSE
             [call |-> [c EXCEPT !.pc = "done",
                                 !.webhook_log = u.webhook_log,
                                 !.response =
                                     Some([status |-> HTTP_200_OK,
                                           body |-> [status |-> "ignored",
                                                     message |-> message,
                                                     event |-> c.request.x_github_event]])],
              logs |-> u.logs]

\* lines 127-185: validate the payload, and for a processed pull request action
\* call GitHubWebhookService.process_pr_event
github_webhook_dispatch(logs, c) ==
    IF c.request.x_github_event = "pull_request"
    THEN IF c.payload_dict = None
         THEN github_webhook_failed(logs, c, "UnboundLocalError: payload_dict")
         ELSE LET validated == GitHubWebhookPayload(c.payload_dict[1]) IN
              IF validated.exc # "none"
              THEN github_webhook_failed(logs, c, "ValidationError: field required")
              ELSE IF validated.payload[1].action \in PROCESSED_ACTIONS
              THEN [call |-> [c EXCEPT !.pc = "engine",
                                       !.engine_calls = @ + 1],
                    logs |-> logs]
              ELSE github_webhook_ignored(logs, c)
    ELSE github_webhook_ignored(logs, c)

\* lines 187-197: process_pr_event returned
github_webhook_engine_returned(logs, c, result) ==
    LET u == update_log_entry(logs, c, "success", Some(HTTP_200_OK), None) IN
    \* line 195: a save that raises is caught by the except of line 212
    IF u.exc # "none"
    THEN github_webhook_failed(u.logs, [c EXCEPT !.webhook_log = u.webhook_log], u.exc)
    ELSE
    [call |-> [c EXCEPT !.pc = "done",
                        !.webhook_log = u.webhook_log,
                        !.response =
                            Some([status |-> HTTP_200_OK,
                                  body |-> [result |-> result,
                                            event |-> c.request.x_github_event,
                                            action |-> c.payload_dict[1].action[1]]])],
     logs |-> u.logs]

\* ------------------------------------------------------------- actions
Idle == [op |-> "none"]

\* no delivery has arrived: no log is stored and no call is being handled
NoCall == [pc |-> "idle"]

NoDeliveries ==
    /\ webhook_logs = <<>>
    /\ next_log_uuid = 1
    /\ github_webhook_secret = None
    /\ call = NoCall
    /\ log_store_writable = TRUE
    /\ calls = <<>>

Init ==
    /\ user_store = EmptyUserStore
    /\ next_uuid = 1
    /\ PASSWORD_SALT = "openhands-salt"
    /\ now = 0
    /\ ticks = 0
    /\ held_token = None
    /\ webhook_configs = <<>>
    /\ next_webhook_uuid = 1
    /\ resp = Idle
    /\ NoDeliveries

InboundUnchanged ==
    UNCHANGED << webhook_logs, next_log_uuid, github_webhook_secret, call,
                 log_store_writable, calls >>
WebhookUnchanged ==
    /\ UNCHANGED << webhook_configs, next_webhook_uuid >>
    /\ InboundUnchanged
UsersUnchanged == UNCHANGED << user_store, next_uuid, PASSWORD_SALT >>
ClockUnchanged == UNCHANGED << now, ticks >>

\* POST /api/auth/register
Register(username, email, password) ==
    LET r == register_user(user_store, username, email, password, next_uuid,
                           PASSWORD_SALT, now) IN
    /\ r.status = HTTP_201_CREATED => next_uuid <= MaxUsers
    /\ user_store' = r.store
    /\ next_uuid' = IF r.status = HTTP_201_CREATED THEN next_uuid + 1 ELSE next_uuid
    /\ resp' = [op |-> "register", username |-> username, email |-> email,
                password |-> password, status |-> r.status, detail |-> r.detail,
                body |-> r.body]
    /\ UNCHANGED << PASSWORD_SALT, held_token >>
    /\ ClockUnchanged
    /\ WebhookUnchanged

\* POST /api/auth/token
Login(username, password) ==
    LET r == login_for_access_token(user_store, username, password,
                                    PASSWORD_SALT, now) IN
    /\ user_store' = r.store
    /\ resp' = [op |-> "login", username |-> username, password |-> password,
                status |-> r.status, detail |-> r.detail, token |-> r.token,
                expires_at |-> r.expires_at, user |-> r.user]
    /\ UNCHANGED << next_uuid, PASSWORD_SALT, held_token >>
    /\ ClockUnchanged
    /\ WebhookUnchanged

\* FileUserStore.delete_user
DeleteUser(user_id) ==
    /\ user_store' = delete_user(user_store, user_id)
    /\ resp' = [op |-> "delete_user", user_id |-> user_id]
    /\ UNCHANGED << next_uuid, PASSWORD_SALT, held_token >>
    /\ ClockUnchanged
    /\ WebhookUnchanged

\* FileUserStore.get_user followed by FileUserStore.save_user of the record with
\* the account deactivated or its password removed (an account that signs in
\* through a provider only)
AdminEdits(user) ==
    { [user EXCEPT !.is_active = FALSE], [user EXCEPT !.password_hash = None] } \ {user}

SaveUser(user_id) ==
    /\ user_id \in DOMAIN user_store.users
    /\ \E user \in AdminEdits(user_store.users[user_id]) :
          /\ user_store' = save_user(user_store, user)
          /\ resp' = [op |-> "save_user", user_id |-> user_id]
    /\ UNCHANGED << next_uuid, PASSWORD_SALT, held_token >>
    /\ ClockUnchanged
    /\ WebhookUnchanged

Tick(d) ==
    /\ ticks < MaxTicks
    /\ now' = now + d
    /\ ticks' = ticks + 1
    /\ resp' = [op |-> "tick"]
    /\ UNCHANGED held_token
    /\ UsersUnchanged
    /\ WebhookUnchanged

\* the client keeps the access token that the login just returned
KeepToken ==
    /\ resp.op = "login"
    /\ resp.token # None
    /\ held_token' = Some([token |-> resp.token[1], issued_by |-> "login",
                           issued_at |-> now])
    /\ resp' = [op |-> "keep_token"]
    /\ UsersUnchanged
    /\ ClockUnchanged
    /\ WebhookUnchanged

\* create_access_token called with a payload of the caller's choosing and the
\* default lifetime
IssueToken(sub) ==
    /\ held_token' = Some([token |-> create_access_token(
                                         [sub |-> sub, username |-> None,
                                          email |-> None], None, now),
                           issued_by |-> "create_access_token",
                           issued_at |-> now])
    /\ resp' = [op |-> "create_access_token"]
    /\ UsersUnchanged
    /\ ClockUnchanged
    /\ WebhookUnchanged

\* what a client can present as a bearer token: the token it holds, that token
\* with its payload altered, any payload signed with a key that is not the
\* server's, and a string that is no token
MalformedToken == [wellformed |-> FALSE, payload |-> None, mac |-> None]

Resigned(token, key) == [token EXCEPT !.mac = HS256(key, token.payload)]

Tampered(token) ==
    { [token EXCEPT !.payload.sub = Some(u)] : u \in DOMAIN user_store.users }
        \cup { [token EXCEPT !.payload.exp = @ + JWT_EXPIRATION_MINUTES] }

ForgedTokens(t) ==
    { Resigned(create_access_token([sub |-> Some(u), username |-> None,
                                    email |-> None], None, t), ATTACKER_KEY) :
          u \in DOMAIN user_store.users }

PresentableTokens ==
    {MalformedToken} \cup ForgedTokens(now)
        \cup (IF held_token = None THEN {}
              ELSE ({held_token[1].token, Resigned(held_token[1].token, ATTACKER_KEY)}
                        \cup Tampered(held_token[1].token)))

\* Depends(get_current_user)
VerifyToken(token) ==
    LET r == get_current_user_from_token(user_store, token, now) IN
    /\ resp' = [op |-> "verify", token |-> token, status |-> r.status,
                detail |-> r.detail, user |-> r.user]
    /\ UNCHANGED held_token
    /\ UsersUnchanged
    /\ ClockUnchanged
    /\ WebhookUnchanged

RegisterInputs ==
    { << <<"a","l">>, <<"a","@","x">> >>, << <<"A","l">>, <<"b","@","x">> >>,
      << <<"b","o">>, <<"A","@","x">> >>, << <<"b","o">>, <<"b","@","x">> >> }
RegisterPasswords == { "password123" }

Next ==
    \/ \E i \in RegisterInputs, password \in RegisterPasswords :
          Register(i[1], i[2], password)
    \/ \E username \in Usernames, password \in Passwords : Login(username, password)
    \/ \E user_id \in UserIds : DeleteUser(user_id)
    \/ \E user_id \in UserIds : SaveUser(user_id)
    \/ Tick(1)

Spec == Init /\ [][Next]_vars

TokenRegisterInputs ==
    { << <<"a","l">>, <<"a","@","x">> >>, << <<"b","o">>, <<"b","@","x">> >> }
TokenLoginInputs ==
    { << <<"A","l">>, "password123" >>, << <<"b","o">>, "password123" >>,
      << <<"b","o">>, "wrong_password" >> }

NextToken ==
    \/ \E i \in TokenRegisterInputs : Register(i[1], i[2], "password123")
    \/ \E i \in TokenLoginInputs : Login(i[1], i[2])
    \/ KeepToken
    \/ \E sub \in {None} \cup { Some(u) : u \in DOMAIN user_store.users } :
          IssueToken(sub)
    \/ \E token \in PresentableTokens : VerifyToken(token)
    \/ \E user_id \in UserIds : DeleteUser(user_id)
    \/ \E d \in TickSteps : Tick(d)

SpecToken == Init /\ [][NextToken]_vars

\* ------------------------------------------------ webhook registry actions
\* the state after alice and bob have registered
TwoUsersStore ==
    create_user(
        create_user(EmptyUserStore, <<"a","l">>, <<"a","@","x">>, "password123",
                    1, "openhands-salt", 0).store,
        <<"b","o">>, <<"b","@","x">>, "password123", 2, "openhands-salt", 0).store

InitWebhook ==
    /\ user_store = TwoUsersStore
    /\ next_uuid = 3
    /\ PASSWORD_SALT = "openhands-salt"
    /\ now = 0
    /\ ticks = 0
    /\ held_token = None
    /\ webhook_configs = <<>>
    /\ next_webhook_uuid = 1
    /\ resp = Idle
    /\ NoDeliveries

WebhookIds == 1..MaxWebhooks

WebhookCreateInputs ==
    { [name |-> "User 1 Webhook", url |-> "https://example.com/user1-webhook",
       events |-> <<"push">>, repository |-> None, secret |-> Some("user1_secret")] }

NoUpdate ==
    [name |-> None, url |-> None, events |-> None, repository |-> None,
     secret |-> None, status |-> None]

WebhookUpdateInputs ==
    { [NoUpdate EXCEPT !.name = Some("Updated Webhook"),
                       !.url = Some("https://example.com/updated"),
                       !.events = Some(<<"push", "pull_request">>),
                       !.repository = Some("user1/repo"),
                       !.secret = Some("updated_webhook_secret")],
      NoUpdate }

UsersAndTokensUnchanged == UNCHANGED << user_store, next_uuid, PASSWORD_SALT, held_token >>

\* POST /api/webhooks/configs
CreateWebhook(current_user_id, webhook_data) ==
    LET r == create_webhook(webhook_configs, current_user_id, webhook_data,
                            next_webhook_uuid, now) IN
    /\ next_webhook_uuid <= MaxWebhooks
    /\ webhook_configs' = r.files
    /\ next_webhook_uuid' = next_webhook_uuid + 1
    /\ resp' = [op |-> "create_webhook", caller |-> current_user_id,
                webhook_id |-> next_webhook_uuid, webhook_data |-> webhook_data,
                status |-> r.status, returned |-> r.returned]
    /\ UsersAndTokensUnchanged
    /\ ClockUnchanged
    /\ InboundUnchanged

\* GET /api/webhooks/configs
ListWebhooks(current_user_id) ==
    LET r == list_webhooks(webhook_configs, current_user_id) IN
    /\ resp' = [op |-> "list_webhooks", caller |-> current_user_id,
                webhook_id |-> 0, status |-> r.status, returned |-> r.returned]
    /\ UNCHANGED << webhook_configs, next_webhook_uuid >>
    /\ UsersAndTokensUnchanged
    /\ ClockUnchanged
    /\ InboundUnchanged

\* GET /api/webhooks/configs/{webhook_id}
GetWebhook(current_user_id, webhook_id) ==
    LET r == get_webhook(webhook_configs, current_user_id, webhook_id) IN
    /\ resp' = [op |-> "get_webhook", caller |-> current_user_id,
                webhook_id |-> webhook_id, status |-> r.status,
                returned |-> r.returned]
    /\ UNCHANGED << webhook_configs, next_webhook_uuid >>
    /\ UsersAndTokensUnchanged
    /\ ClockUnchanged
    /\ InboundUnchanged

\* PATCH /api/webhooks/configs/{webhook_id}
UpdateWebhook(current_user_id, webhook_id, webhook_data) ==
    LET r == update_webhook(webhook_configs, current_user_id, webhook_id,
                            webhook_data, now) IN
    /\ webhook_configs' = r.files
    /\ resp' = [op |-> "update_webhook", caller |-> current_user_id,
                webhook_id |-> webhook_id, webhook_data |-> webhook_data,
                status |-> r.status, returned |-> r.returned]
    /\ UNCHANGED next_webhook_uuid
    /\ UsersAndTokensUnchanged
    /\ ClockUnchanged
    /\ InboundUnchanged

\* DELETE /api/webhooks/configs/{webhook_id}
DeleteWebhook(current_user_id, webhook_id) ==
    LET r == delete_webhook(webhook_configs, current_user_id, webhook_id) IN
    /\ webhook_configs' = r.files
    /\ resp' = [op |-> "delete_webhook", caller |-> current_user_id,
                webhook_id |-> webhook_id, status |-> r.status,
                returned |-> r.returned]
    /\ UNCHANGED next_webhook_uuid
    /\ UsersAndTokensUnchanged
    /\ ClockUnchanged
    /\ InboundUnchanged

NextWebhook ==
    \/ \E u \in DOMAIN user_store.users, d \in WebhookCreateInputs : CreateWebhook(u, d)
    \/ \E u \in DOMAIN user_store.users : ListWebhooks(u)
    \/ \E u \in DOMAIN user_store.users, w \in WebhookIds : GetWebhook(u, w)
    \/ \E u \in DOMAIN user_store.users, w \in WebhookIds, d \in WebhookUpdateInputs :
          UpdateWebhook(u, w, d)
    \/ \E u \in DOMAIN user_store.users, w \in WebhookIds : DeleteWebhook(u, w)
    \/ Tick(1)

SpecWebhook == InitWebhook /\ [][NextWebhook]_vars

\* ------------------------------------------------ inbound delivery actions
\* alice has registered webhook 1 with a secret and bob webhook 2 without one
TwoWebhooks ==
    LET first == create_webhook(<<>>, 1,
                     [name |-> "User 1 Webhook", url |-> "https://example.com/user1-webhook",
                      events |-> <<"pull_request">>, repository |-> None,
                      secret |-> Some("user1_secret")], 1, 0).files
    IN  create_webhook(first, 2,
                     [name |-> "User 2 Webhook", url |-> "https://example.com/user2-webhook",
                      events |-> <<"pull_request">>, repository |-> None,
                      secret |-> None], 2, 0).files

GlobalSecrets == { None, Some("global_webhook_secret") }

InitInbound ==
    /\ user_store = TwoUsersStore
    /\ next_uuid = 3
    /\ PASSWORD_SALT = "openhands-salt"
    /\ now = 0
    /\ ticks = 0
    /\ held_token = None
    /\ webhook_configs = TwoWebhooks
    /\ next_webhook_uuid = 3
    /\ resp = Idle
    /\ webhook_logs = <<>>
    /\ next_log_uuid = 1
    /\ github_webhook_secret \in GlobalSecrets
    /\ call = NoCall
    /\ log_store_writable = TRUE
    /\ calls = <<>>

\* the deliveries sent: the event named in X-GitHub-Event and the body
Deliveries ==
    { << "pull_request", BODY_PR_OPENED >>, << "pull_request", BODY_PR_CLOSED >>,
      << "pull_request", BODY_PR_OPENED_NO_SENDER >>,
      << "pull_request", BODY_PR_CLOSED_NO_SENDER >>,
      << "issues", BODY_ISSUE_OPENED >>, << "issues", BODY_NOT_JSON >> }
\* how the sender signs: no header, a header with no value, or the GitHub
\* signature of the body under one of the keys a sender may hold: the secret
\* alice registered, the text stored in its place, or the global secret
SigningKeys == { "user1_secret", SECRET_DISPLAY, "global_webhook_secret" }
Signing == { "no header", "empty header" } \cup SigningKeys
\* the X-Hub-Signature-256 value GitHub computes for a body under a key
GitHubSignature(key, body) ==
    [prefix |-> "sha256=",
     hexdigest |-> Some([digestmod |-> "sha256", key |-> key, msg |-> body])]

SignatureHeader(signing, body) ==
    CASE signing = "no header" -> None
      [] signing = "empty header" -> Some(EmptySignature)
      [] OTHER -> Some(GitHubSignature(signing, body))
Pairs == { << None, None >>, << Some(1), Some(1) >>, << Some(2), Some(2) >>,
           << Some(1), Some(2) >> }

\* what process_pr_event may return, and the text of what it may raise
EngineStatusCodes == { HTTP_200_OK, HTTP_202_ACCEPTED }
EngineResult(status_code) == [status_code |-> status_code, status |-> "success"]
EngineErrors == { "RuntimeError: automation engine unavailable" }

RegistryUnchanged == UNCHANGED << webhook_configs, next_webhook_uuid >>
InboundFrame ==
    /\ UNCHANGED << github_webhook_secret, log_store_writable, calls >>
    /\ UsersAndTokensUnchanged
    /\ ClockUnchanged
    /\ RegistryUnchanged

\* the request arrives: lines 49-87
GithubWebhook(x_github_event, body, signing, user_id, webhook_id) ==
    LET request == [x_github_event |-> x_github_event, body |-> body,
                    x_hub_signature_256 |-> SignatureHeader(signing, body),
                    user_id |-> user_id, webhook_id |-> webhook_id]
        r == github_webhook_receive(webhook_logs, request, next_log_uuid, now)
    IN
    /\ call.pc \in { "idle", "done" }
    /\ r.call.webhook_log # None => next_log_uuid <= MaxLogs
    /\ call' = r.call
    /\ webhook_logs' = r.logs
    /\ next_log_uuid' = IF r.call.webhook_log # None THEN next_log_uuid + 1
                        ELSE next_log_uuid
    /\ resp' = [op |-> "github_webhook", at |-> "received"]
    /\ InboundFrame

\* lines 89-125
VerifySignature ==
    LET r == github_webhook_verify(webhook_configs, webhook_logs,
                                   github_webhook_secret, call) IN
    /\ call.pc = "verify"
    /\ call' = r.call
    /\ webhook_logs' = r.logs
    /\ resp' = [op |-> "github_webhook", at |-> "signature checked"]
    /\ UNCHANGED next_log_uuid
    /\ InboundFrame

\* lines 127-185 and 199-228
Dispatch ==
    LET r == github_webhook_dispatch(webhook_logs, call) IN
    /\ call.pc = "dispatch"
    /\ call' = r.call
    /\ webhook_logs' = r.logs
    /\ resp' = [op |-> "github_webhook", at |-> "dispatched"]
    /\ UNCHANGED next_log_uuid
    /\ InboundFrame

\* process_pr_event returns: lines 187-197
EngineReturns(status_code) ==
    LET r == github_webhook_engine_returned(webhook_logs, call,
                                            EngineResult(status_code)) IN
    /\ call.pc = "engine"
    /\ call' = r.call
    /\ webhook_logs' = r.logs
    /\ resp' = [op |-> "github_webhook", at |-> "engine returned"]
    /\ UNCHANGED next_log_uuid
    /\ InboundFrame

\* process_pr_event raises: lines 212-228
EngineRaises(error) ==
    LET r == github_webhook_failed(webhook_logs, call, error) IN
    /\ call.pc = "engine"
    /\ call' = r.call
    /\ webhook_logs' = r.logs
    /\ resp' = [op |-> "github_webhook", at |-> "engine raised"]
    /\ UNCHANGED next_log_uuid
    /\ InboundFrame

NextInbound ==
    \/ \E delivery \in Deliveries, pair \in Pairs, signing \in Signing :
            GithubWebhook(delivery[1], delivery[2], signing, pair[1], pair[2])
    \/ VerifySignature
    \/ Dispatch
    \/ \E status_code \in EngineStatusCodes : EngineReturns(status_code)
    \/ \E error \in EngineErrors : EngineRaises(error)

SpecInbound == InitInbound /\ [][NextInbound]_vars

\* ------------------------------------- deliveries with a log store that fails
\* the log store stops accepting writes (file_store.write raises)
LogStoreFails ==
    /\ log_store_writable
    /\ log_store_writable' = FALSE
    /\ UNCHANGED << webhook_logs, next_log_uuid, github_webhook_secret, call, resp, calls >>
    /\ UsersAndTokensUnchanged
    /\ ClockUnchanged
    /\ RegistryUnchanged

\* the log store accepts writes again
LogStoreRecovers ==
    /\ ~log_store_writable
    /\ log_store_writable' = TRUE
    /\ UNCHANGED << webhook_logs, next_log_uuid, github_webhook_secret, call, resp, calls >>
    /\ UsersAndTokensUnchanged
    /\ ClockUnchanged
    /\ RegistryUnchanged

FaultyDeliveries ==
    { << "pull_request", BODY_PR_OPENED >>, << "pull_request", BODY_PR_CLOSED >>,
      << "pull_request", BODY_PR_OPENED_NO_SENDER >>,
      << "issues", BODY_ISSUE_OPENED >>, << "issues", BODY_NOT_JSON >> }
FaultySigning == { "no header", "user1_secret", "global_webhook_secret" }
FaultyPairs == { << None, None >>, << Some(1), Some(1) >>, << Some(2), Some(2) >> }

NextInboundFaulty ==
    \/ \E delivery \in FaultyDeliveries, pair \in FaultyPairs, signing \in FaultySigning :
            GithubWebhook(delivery[1], delivery[2], signing, pair[1], pair[2])
    \/ VerifySignature
    \/ Dispatch
    \/ \E status_code \in EngineStatusCodes : EngineReturns(status_code)
    \/ \E error \in EngineErrors : EngineRaises(error)
    \/ LogStoreFails
    \/ LogStoreRecovers

SpecInboundFaulty == InitInbound /\ [][NextInboundFaulty]_vars

\* ------------------------- deliveries that name an owner, a webhook or neither
PartialDeliveries ==
    { << "pull_request", BODY_PR_OPENED >>, << "pull_request", BODY_PR_CLOSED >>,
      << "issues", BODY_ISSUE_OPENED >>, << "issues", BODY_NOT_JSON >> }
PartialSigning == { "no header", "user1_secret", "global_webhook_secret" }
\* both ids, neither, one of them left out, one of them given empty
PartialPairs == { << None, None >>, << Some(1), Some(1) >>, << Some(1), None >>,
                  << None, Some(1) >>, << Some(EmptyId), Some(1) >>,
                  << Some(1), Some(EmptyId) >> }

NextInboundPartial ==
    \/ \E delivery \in PartialDeliveries, pair \in PartialPairs,
          signing \in PartialSigning :
            GithubWebhook(delivery[1], delivery[2], signing, pair[1], pair[2])
    \/ VerifySignature
    \/ Dispatch
    \/ \E status_code \in EngineStatusCodes : EngineReturns(status_code)
    \/ \E error \in EngineErrors : EngineRaises(error)

SpecInboundPartial == InitInbound /\ [][NextInboundPartial]_vars

\* ------------------------------------------------- GET /api/webhooks/logs
WebhookLogResponse(log) ==
    [log_id |-> log.log_id, webhook_id |-> log.webhook_id,
     event_type |-> log.event_type, repository |-> log.repository,
     pr_number |-> log.pr_number, status |-> log.status,
     response_status |-> log.response_status,
     error_message |-> log.error_message, created_at |-> log.created_at]

list_webhook_logs_route(files, current_user_id, webhook_id, limit, listing) ==
    LET listed == list_webhook_logs(files, current_user_id, current_user_id,
                                    webhook_id, limit, listing) IN
    IF listed.exc # "none"
    THEN [status |-> HTTP_500_INTERNAL_SERVER_ERROR, returned |-> << >>]
    ELSE [status |-> HTTP_200_OK,
          returned |-> [i \in 1..Len(listed.logs) |-> WebhookLogResponse(listed.logs[i])]]

\* the orders in which file_store.list may return the files of a directory
Listings(dir) ==
    { listing \in [1..Cardinality(dir) -> dir] :
        \A i, j \in 1..Cardinality(dir) : i # j => listing[i] # listing[j] }

\* the delivery logs that are stored: log i of MaxStoredLogs was written for
\* webhook 1 or 3 of user 1, or for webhook 2 of user 2, at one of two times
LogOwners == { << 1, 1 >>, << 1, 3 >>, << 2, 2 >> }
LogTimes == { 0, 1 }
StoredLog(i, owner, t) ==
    [create_webhook_log(owner[2], owner[1], "all", Some("user1/repo"), None,
                        "pending", json_loads(BODY_ISSUE_OPENED).value[1], i, t)
        EXCEPT !.status = "success", !.response_status = Some(HTTP_200_OK)]
LogStoreOf(f) ==
    [path \in { get_webhook_log_path(f[i][1][1], i) : i \in 1..MaxStoredLogs } |->
        StoredLog(path[2], f[path[2]][1], f[path[2]][2])]
LogStores == { LogStoreOf(f) : f \in [1..MaxStoredLogs -> LogOwners \X LogTimes] }

InitLogs ==
    /\ user_store = TwoUsersStore
    /\ next_uuid = 3
    /\ PASSWORD_SALT = "openhands-salt"
    /\ now = MaxStoredLogs
    /\ ticks = 0
    /\ held_token = None
    /\ webhook_configs = <<>>
    /\ next_webhook_uuid = 4
    /\ resp = Idle
    /\ webhook_logs \in LogStores
    /\ next_log_uuid = MaxStoredLogs + 1
    /\ github_webhook_secret = None
    /\ call = NoCall
    /\ log_store_writable = TRUE
    /\ calls = <<>>

LogFilters == { None, Some(1), Some(3) }
LogLimits == { 1, 2, 50 }

ListWebhookLogs(current_user_id, webhook_id, limit) ==
    \E listing \in Listings(get_webhook_logs_dir(webhook_logs, current_user_id)) :
        LET r == list_webhook_logs_route(webhook_logs, current_user_id, webhook_id,
                                         limit, listing) IN
        /\ resp' = [op |-> "list_webhook_logs", caller |-> current_user_id,
                    webhook_id |-> webhook_id, limit |-> limit,
                    status |-> r.status, returned |-> r.returned]
        /\ UNCHANGED << webhook_configs, next_webhook_uuid >>
        /\ UsersAndTokensUnchanged
        /\ ClockUnchanged
        /\ InboundUnchanged

NextLogs ==
    \E u \in DOMAIN user_store.users, w \in LogFilters, limit \in LogLimits :
        ListWebhookLogs(u, w, limit)

SpecLogs == InitLogs /\ [][NextLogs]_vars

\* ------------------------------------------------- credential hasher actions
InitHash ==
    /\ user_store = EmptyUserStore
    /\ next_uuid = 1
    /\ PASSWORD_SALT \in Salts
    /\ now = 0
    /\ ticks = 0
    /\ held_token = None
    /\ webhook_configs = <<>>
    /\ next_webhook_uuid = 1
    /\ resp = Idle
    /\ NoDeliveries

AllButResp ==
    << user_store, next_uuid, PASSWORD_SALT, now, ticks, held_token,
       webhook_configs, next_webhook_uuid,
       webhook_logs, next_log_uuid, github_webhook_secret, call,
       log_store_writable, calls >>

HashPassword(password) ==
    /\ resp' = [op |-> "get_password_hash", password |-> password,
                hashed |-> get_password_hash(password, PASSWORD_SALT)]
    /\ UNCHANGED AllButResp

HashAgain ==
    /\ resp.op = "get_password_hash"
    /\ resp' = [op |-> "get_password_hash again", password |-> resp.password,
                hashed |-> resp.hashed,
                again |-> get_password_hash(resp.password, PASSWORD_SALT)]
    /\ UNCHANGED AllButResp

VerifyPassword(plain_password) ==
    /\ resp.op \in {"get_password_hash", "get_password_hash again"}
    /\ resp' = [op |-> "verify_password", password |-> resp.password,
                hashed |-> resp.hashed, plain_password |-> plain_password,
                verified |-> verify_password(plain_password, resp.hashed,
                                             PASSWORD_SALT)]
    /\ UNCHANGED AllButResp

NextHash ==
    \/ \E password \in HashInputs : HashPassword(password)
    \/ HashAgain
    \/ \E plain_password \in HashInputs : VerifyPassword(plain_password)

SpecHash == InitHash /\ [][NextHash]_vars

\* ------------------------------------------- FileWebhookStore called directly
\* Any caller holding a store bound to one user may hand it a record of any
\* owner and ask it for the records of any user.
InitStore ==
    /\ InitInbound
    /\ github_webhook_secret = None

StoreFrame ==
    /\ UNCHANGED << next_webhook_uuid, next_log_uuid, github_webhook_secret, call,
                    log_store_writable, calls >>
    /\ UsersAndTokensUnchanged
    /\ ClockUnchanged

StoreAnswer(op, self_user_id, owner, exc, returned) ==
    [op |-> op, self_user_id |-> self_user_id, owner |-> owner, exc |-> exc,
     returned |-> returned]

StoreSaveConfig(self_user_id, owner, webhook_id) ==
    LET config == create_webhook_config(owner, "User 1 Webhook",
                                        "https://example.com/user1-webhook",
                                        <<"push">>, None, None, webhook_id, now)
        r == save_webhook_config(webhook_configs, self_user_id, config, now)
    IN  /\ webhook_configs' = r.files
        /\ resp' = StoreAnswer("save_webhook_config", self_user_id, owner, r.exc, {})
        /\ UNCHANGED webhook_logs
        /\ StoreFrame

StoreSaveLog(self_user_id, owner, log_id) ==
    LET log == create_webhook_log(owner, owner, "all", None, None, "pending",
                                  <<>>, log_id, now)
        r == save_webhook_log(webhook_logs, self_user_id, log)
    IN  /\ webhook_logs' = r.files
        /\ resp' = StoreAnswer("save_webhook_log", self_user_id, owner, r.exc, {})
        /\ UNCHANGED webhook_configs
        /\ StoreFrame

StoreGetConfig(self_user_id, webhook_id) ==
    LET r == get_webhook_config(webhook_configs, self_user_id, webhook_id) IN
    /\ resp' = StoreAnswer("get_webhook_config", self_user_id, self_user_id, r.exc,
                           IF r.exc = "none" THEN {r.config[1]} ELSE {})
    /\ UNCHANGED << webhook_configs, webhook_logs >>
    /\ StoreFrame

StoreGetLog(self_user_id, log_id) ==
    LET r == get_webhook_log(webhook_logs, self_user_id, log_id) IN
    /\ resp' = StoreAnswer("get_webhook_log", self_user_id, self_user_id, r.exc,
                           IF r.exc = "none" THEN {r.log[1]} ELSE {})
    /\ UNCHANGED << webhook_configs, webhook_logs >>
    /\ StoreFrame

StoreListConfigs(self_user_id, user_id) ==
    LET r == list_webhook_configs(webhook_configs, self_user_id, user_id) IN
    /\ resp' = StoreAnswer("list_webhook_configs", self_user_id, user_id, r.exc,
                           r.configs)
    /\ UNCHANGED << webhook_configs, webhook_logs >>
    /\ StoreFrame

StoreListLogs(self_user_id, user_id) ==
    \E listing \in Listings(get_webhook_logs_dir(webhook_logs, self_user_id)) :
        LET r == list_webhook_logs(webhook_logs, self_user_id, user_id, None, 50,
                                   listing) IN
        /\ resp' = StoreAnswer("list_webhook_logs", self_user_id, user_id, r.exc,
                               { r.logs[i] : i \in DOMAIN r.logs })
        /\ UNCHANGED << webhook_configs, webhook_logs >>
        /\ StoreFrame

NextStore ==
    \E self_user_id \in DOMAIN user_store.users, owner \in DOMAIN user_store.users :
        \/ \E webhook_id \in WebhookIds :
               \/ StoreSaveConfig(self_user_id, owner, webhook_id)
               \/ StoreGetConfig(self_user_id, webhook_id)
        \/ \E log_id \in 1..MaxLogs :
               \/ StoreSaveLog(self_user_id, owner, log_id)
               \/ StoreGetLog(self_user_id, log_id)
        \/ StoreListConfigs(self_user_id, owner)
        \/ StoreListLogs(self_user_id, owner)

SpecStore == InitStore /\ [][NextStore]_vars

\* ------------------------------------------------------------ MultiUserAuth
\* An Authorization header is its scheme word and what follows the blank:
\* auth_header.startswith('Bearer ') holds exactly for the scheme "Bearer", and
\* auth_header.replace('Bearer ', '') is then the credentials.
AuthorizationHeader(scheme, credentials) ==
    Some([scheme |-> scheme, credentials |-> credentials])

\* MultiUserAuth.get_instance(request): no user resolved yet
MultiUserAuth(authorization) ==
    [request |-> [Authorization |-> authorization], _user |-> None]

\* _get_user without the except of lines 232-233
_get_user_LetsHTTPExceptionThrough(self, store, t) ==
    LET auth_header == self.request.Authorization IN
    IF self._user # None
    THEN [self |-> self, raised |-> "none", user |-> self._user]
    ELSE IF auth_header # None /\ auth_header[1].scheme = "Bearer"
    THEN LET token == auth_header[1].credentials
             r == get_current_user_from_token(store, token, t)
         IN  IF r.status = HTTP_200_OK
             THEN [self |-> [self EXCEPT !._user = r.user], raised |-> "none",
                   user |-> r.user]
             ELSE [self |-> self, raised |-> "HTTPException", user |-> None]
    ELSE [self |-> self, raised |-> "none", user |-> None]

_get_user(self, store, t) ==
    LET auth_header == self.request.Authorization IN
    IF self._user # None
    THEN [self |-> self, raised |-> "none", user |-> self._user]
    ELSE IF auth_header # None /\ auth_header[1].scheme = "Bearer"
    THEN LET token == auth_header[1].credentials
             r == get_current_user_from_token(store, token, t)
         IN  IF r.status = HTTP_200_OK
             THEN [self |-> [self EXCEPT !._user = r.user], raised |-> "none",
                   user |-> r.user]
             ELSE [self |-> self, raised |-> "none", user |-> None]
    ELSE [self |-> self, raised |-> "none", user |-> None]

get_user_id(self, store, t) ==
    LET r == _get_user(self, store, t) IN
    [self |-> r.self, raised |-> r.raised,
     returned |-> IF r.raised = "none" /\ r.user # None
                  THEN Some(r.user[1].user_id) ELSE None]

InitAuth ==
    /\ user_store = TwoUsersStore
    /\ next_uuid = 3
    /\ PASSWORD_SALT = "openhands-salt"
    /\ now = 0
    /\ ticks = 0
    /\ held_token = None
    /\ webhook_configs = <<>>
    /\ next_webhook_uuid = 1
    /\ resp = Idle
    /\ NoDeliveries

AuthFrame ==
    /\ UNCHANGED << webhook_logs, next_log_uuid, github_webhook_secret, call,
                    log_store_writable >>
    /\ RegistryUnchanged
    /\ UsersAndTokensUnchanged
    /\ ClockUnchanged

\* a request arrives with a header of the given scheme, or with none
NewRequest(scheme, token) ==
    /\ calls' = << MultiUserAuth(IF scheme = "no header" THEN None
                                 ELSE AuthorizationHeader(scheme, token)) >>
    /\ resp' = [op |-> "get_instance"]
    /\ AuthFrame

\* a handler of the request asks for the user id
GetUserId ==
    /\ calls # <<>>
    /\ LET r == get_user_id(calls[1], user_store, now) IN
       /\ calls' = << r.self >>
       /\ resp' = [op |-> "get_user_id", raised |-> r.raised, returned |-> r.returned]
    /\ AuthFrame

Schemes == { "Bearer", "bearer", "Basic", "no header" }

NextAuth ==
    \/ \E sub \in {None} \cup { Some(u) : u \in DOMAIN user_store.users } :
          IssueToken(sub)
    \/ \E token \in PresentableTokens : NewRequest("Bearer", token)
    \/ \E scheme \in Schemes \ {"Bearer"} : NewRequest(scheme, MalformedToken)
    \/ held_token # None /\ NewRequest("bearer", held_token[1].token)
    \/ GetUserId
    \/ \E user_id \in DOMAIN TwoUsersStore.users : DeleteUser(user_id)
    \/ \E d \in TickSteps : Tick(d)

SpecAuth == InitAuth /\ [][NextAuth]_vars

\* ------------------------------------------ concurrent POST /api/auth/register
\* Every await of create_user and save_user hands control to the event loop, so
\* the steps of two requests interleave between one file access and the next.
MaxCalls == 2
Callers == 1..MaxCalls

RacingRegistrations ==
    { << <<"a","l">>, <<"a","@","x">>, "password123" >>,
      << <<"A","l">>, <<"b","@","x">>, "password124" >>,
      << <<"b","o">>, <<"b","@","x">>, "password124" >> }

CheckSteps == { "load_username_index for check", "get_user by username",
                "load_email_index for check", "get_user by email" }
SaveSteps == { "load_username_index", "save_username_index",
               "load_email_index", "save_email_index", "write user file" }

RegisterCall(username, email, password) ==
    [pc |-> "load_username_index for check", username |-> username,
     email |-> email, password |-> password, user_id |-> None, user |-> None,
     username_index |-> <<>>, email_index |-> <<>>,
     status |-> 0, detail |-> <<>>, body |-> None]

\* register_user's answer to a ValueError of create_user
Rejected(c, detail) ==
    [c EXCEPT !.pc = "done", !.status = HTTP_400_BAD_REQUEST, !.detail = detail]

\* create_user up to the call of save_user, one file read at a time
create_user_step(store, c, uuid, salt, t) ==
    LET new_user == [user_id |-> uuid,
                     username |-> c.username,
                     email |-> c.email,
                     password_hash |-> Some(get_password_hash(c.password, salt)),
                     github_id |-> None,
                     gitlab_id |-> None,
                     bitbucket_id |-> None,
                     created_at |-> t,
                     last_login |-> None,
                     is_active |-> TRUE,
                     email_verified |-> FALSE]
        check_email == [c EXCEPT !.pc = "load_email_index for check",
                                 !.user_id = None]
        save == [c EXCEPT !.pc = "load_username_index", !.user_id = None,
                          !.user = Some(new_user)]
    IN  CASE c.pc = "load_username_index for check" ->
                 IF lower(c.username) \notin DOMAIN store.username_index
                 THEN check_email
                 ELSE [c EXCEPT !.pc = "get_user by username",
                                !.user_id = Some(store.username_index[lower(c.username)])]
          [] c.pc = "get_user by username" ->
                 IF get_user(store, c.user_id[1]).exc = "none"
                 THEN Rejected(c, <<"Username already exists", c.username>>)
                 ELSE check_email
          [] c.pc = "load_email_index for check" ->
                 IF lower(c.email) \notin DOMAIN store.email_index
                 THEN save
                 ELSE [c EXCEPT !.pc = "get_user by email",
                                !.user_id = Some(store.email_index[lower(c.email)])]
          [] c.pc = "get_user by email" ->
                 IF get_user(store, c.user_id[1]).exc = "none"
                 THEN Rejected(c, <<"Email already exists", c.email>>)
                 ELSE save

\* save_user whose username index write keeps the entry another request wrote
save_user_step_KeepsFirstWriter(store, c) ==
    LET user == c.user[1] IN
    CASE c.pc = "load_username_index" ->
             [store |-> store,
              c |-> [c EXCEPT !.pc = "save_username_index",
                              !.username_index = store.username_index]]
      [] c.pc = "save_username_index" ->
             [store |-> [store EXCEPT !.username_index =
                             IF lower(user.username) \in DOMAIN store.username_index
                             THEN store.username_index
                             ELSE DictSet(c.username_index, lower(user.username),
                                          user.user_id)],
              c |-> [c EXCEPT !.pc = "load_email_index"]]
      [] c.pc = "load_email_index" ->
             [store |-> store,
              c |-> [c EXCEPT !.pc = "save_email_index",
                              !.email_index = store.email_index]]
      [] c.pc = "save_email_index" ->
             [store |-> [store EXCEPT !.email_index =
                             DictSet(c.email_index, lower(user.email), user.user_id)],
              c |-> [c EXCEPT !.pc = "write user file"]]
      [] c.pc = "write user file" ->
             [store |-> [store EXCEPT !.users = DictSet(@, user.user_id, user)],
              c |-> [c EXCEPT !.pc = "done", !.status = HTTP_201_CREATED,
                              !.body = Some(UserResponse(user))]]

\* save_user, one file access at a time; the last step is register_user's answer
save_user_step(store, c) ==
    LET user == c.user[1] IN
    CASE c.pc = "load_username_index" ->
             [store |-> store,
              c |-> [c EXCEPT !.pc = "save_username_index",
                              !.username_index = store.username_index]]
      [] c.pc = "save_username_index" ->
             [store |-> [store EXCEPT !.username_index =
                             DictSet(c.username_index, lower(user.username),
                                     user.user_id)],
              c |-> [c EXCEPT !.pc = "load_email_index"]]
      [] c.pc = "load_email_index" ->
             [store |-> store,
              c |-> [c EXCEPT !.pc = "save_email_index",
                              !.email_index = store.email_index]]
      [] c.pc = "save_email_index" ->
             [store |-> [store EXCEPT !.email_index =
                             DictSet(c.email_index, lower(user.email), user.user_id)],
              c |-> [c EXCEPT !.pc = "write user file"]]
      [] c.pc = "write user file" ->
             [store |-> [store EXCEPT !.users = DictSet(@, user.user_id, user)],
              c |-> [c EXCEPT !.pc = "done", !.status = HTTP_201_CREATED,
                              !.body = Some(UserResponse(user))]]

InitRace ==
    /\ user_store = EmptyUserStore
    /\ next_uuid = 1
    /\ PASSWORD_SALT = "openhands-salt"
    /\ now = 0
    /\ ticks = 0
    /\ held_token = None
    /\ webhook_configs = <<>>
    /\ next_webhook_uuid = 1
    /\ resp = Idle
    /\ NoDeliveries

RaceFrame ==
    /\ UNCHANGED << PASSWORD_SALT, held_token, resp >>
    /\ ClockUnchanged
    /\ RegistryUnchanged
    /\ UNCHANGED << webhook_logs, next_log_uuid, github_webhook_secret, call,
                    log_store_writable >>

\* a request arrives; the requests are numbered in the order of their arrival
StartRegister(username, email, password) ==
    /\ Len(calls) < MaxCalls
    /\ calls' = Append(calls, RegisterCall(username, email, password))
    /\ UNCHANGED << user_store, next_uuid >>
    /\ RaceFrame

CreateUserStep(i) ==
    /\ i \in DOMAIN calls
    /\ calls[i].pc \in CheckSteps
    /\ LET c == create_user_step(user_store, calls[i], next_uuid, PASSWORD_SALT, now) IN
       /\ calls' = [calls EXCEPT ![i] = c]
       /\ next_uuid' = IF c.user # None THEN next_uuid + 1 ELSE next_uuid
    /\ UNCHANGED user_store
    /\ RaceFrame

SaveUserStep(i) ==
    /\ i \in DOMAIN calls
    /\ calls[i].pc \in SaveSteps
    /\ LET s == save_user_step(user_store, calls[i]) IN
       /\ user_store' = s.store
       /\ calls' = [calls EXCEPT ![i] = s.c]
    /\ UNCHANGED next_uuid
    /\ RaceFrame

NextRace ==
    \/ \E r \in RacingRegistrations : StartRegister(r[1], r[2], r[3])
    \/ \E i \in Callers : CreateUserStep(i)
    \/ \E i \in Callers : SaveUserStep(i)

SpecRace == InitRace /\ [][NextRace]_vars

\* ------------------------------- concurrent PATCH /api/webhooks/configs/{id}
\* update_webhook awaits the read of the stored registration and the write of
\* the new one; the write runs on a worker thread while the event loop serves
\* the other request.
RacingUpdates ==
    { [NoUpdate EXCEPT !.name = Some("Updated Webhook")],
      [NoUpdate EXCEPT !.url = Some("https://example.com/updated")],
      [NoUpdate EXCEPT !.name = Some("Renamed Webhook"),
                       !.secret = Some("updated_webhook_secret")] }

\* << current_user.user_id, webhook_id >>
RacingTargets == { <<1, 1>>, <<2, 2>>, <<2, 1>> }

UpdateCall(current_user_id, webhook_id, webhook_data) ==
    [pc |-> "get_webhook_config", current_user_id |-> current_user_id,
     webhook_id |-> webhook_id, webhook_data |-> webhook_data,
     read |-> None, webhook |-> None, json_str |-> None,
     status |-> 0, returned |-> {}]

UpdateAnswered(c, status) == [c EXCEPT !.pc = "done", !.status = status]

\* update_webhook whose write puts its supplied fields into the registration
\* that is stored at the time of the write
update_webhook_step_MergesOnWrite(files, c, t) ==
    LET path == get_webhook_config_path(c.current_user_id, c.webhook_id)
        webhook_data == c.webhook_data
        Fields(old) ==
            [old EXCEPT
               !.name = Overwrite(@, webhook_data.name),
               !.url = Overwrite(@, webhook_data.url),
               !.events = Overwrite(@, webhook_data.events),
               !.repository = IF webhook_data.repository # None
                              THEN webhook_data.repository ELSE @,
               !.secret = IF webhook_data.secret # None
                          THEN webhook_data.secret ELSE @,
               !.status = Overwrite(@, webhook_data.status)]
    IN
    CASE c.pc = "get_webhook_config" ->
             LET got == get_webhook_config(files, c.current_user_id, c.webhook_id) IN
             IF got.exc # "none"
             THEN [files |-> files, c |-> UpdateAnswered(c, HTTP_404_NOT_FOUND)]
             ELSE IF got.config[1].user_id # c.current_user_id
             THEN [files |-> files, c |-> UpdateAnswered(c, HTTP_403_FORBIDDEN)]
             ELSE [files |-> files,
                   c |-> [c EXCEPT !.pc = "save_webhook_config", !.read = got.config]]
      [] c.pc = "save_webhook_config" ->
             LET webhook == Fields(c.read[1]) IN
             IF webhook.user_id # c.current_user_id
             THEN [files |-> files,
                   c |-> UpdateAnswered(c, HTTP_500_INTERNAL_SERVER_ERROR)]
             ELSE LET saved == [webhook EXCEPT !.updated_at = t] IN
                  [files |-> files,
                   c |-> [c EXCEPT !.pc = "file_store.write",
                                   !.webhook = Some(saved),
                                   !.json_str = Some(dump_json(saved))]]
      [] c.pc = "file_store.write" ->
             [files |-> DictSet(files, path,
                                dump_json([Fields(files[path]) EXCEPT
                                             !.updated_at = c.webhook[1].updated_at])),
              c |-> [UpdateAnswered(c, HTTP_200_OK) EXCEPT
                       !.returned = {WebhookConfigResponse(c.webhook[1])}]]

\* update_webhook, one await at a time: the read of the stored registration
\* (l.186), the fields, the timestamp and the serialisation up to the call of
\* file_store.write (l.189-212, store l.111-119), and the write landing (l.120)
update_webhook_step(files, c, t) ==
    LET path == get_webhook_config_path(c.current_user_id, c.webhook_id)
        webhook_data == c.webhook_data
        Fields(old) ==
            [old EXCEPT
               !.name = Overwrite(@, webhook_data.name),
               !.url = Overwrite(@, webhook_data.url),
               !.events = Overwrite(@, webhook_data.events),
               !.repository = IF webhook_data.repository # None
                              THEN webhook_data.repository ELSE @,
               !.secret = IF webhook_data.secret # None
                          THEN webhook_data.secret ELSE @,
               !.status = Overwrite(@, webhook_data.status)]
    IN
    CASE c.pc = "get_webhook_config" ->
             LET got == get_webhook_config(files, c.current_user_id, c.webhook_id) IN
             IF got.exc # "none"
             THEN [files |-> files, c |-> UpdateAnswered(c, HTTP_404_NOT_FOUND)]
             ELSE IF got.config[1].user_id # c.current_user_id
             THEN [files |-> files, c |-> UpdateAnswered(c, HTTP_403_FORBIDDEN)]
             ELSE [files |-> files,
                   c |-> [c EXCEPT !.pc = "save_webhook_config", !.read = got.config]]
      [] c.pc = "save_webhook_config" ->
             LET webhook == Fields(c.read[1]) IN
             IF webhook.user_id # c.current_user_id
             THEN [files |-> files,
                   c |-> UpdateAnswered(c, HTTP_500_INTERNAL_SERVER_ERROR)]
             ELSE LET saved == [webhook EXCEPT !.updated_at = t] IN
                  [files |-> files,
                   c |-> [c EXCEPT !.pc = "file_store.write",
                                   !.webhook = Some(saved),
                                   !.json_str = Some(dump_json(saved))]]
      [] c.pc = "file_store.write" ->
             [files |-> DictSet(files, path, c.json_str[1]),
              c |-> [UpdateAnswered(c, HTTP_200_OK) EXCEPT
                       !.returned = {WebhookConfigResponse(c.webhook[1])}]]

InitUpdateRace ==
    /\ user_store = TwoUsersStore
    /\ next_uuid = 3
    /\ PASSWORD_SALT = "openhands-salt"
    /\ now = 0
    /\ ticks = 0
    /\ held_token = None
    /\ webhook_configs = TwoWebhooks
    /\ next_webhook_uuid = 3
    /\ resp = Idle
    /\ NoDeliveries

\* a request arrives; the requests are numbered in the order of their arrival
StartUpdate(current_user_id, webhook_id, webhook_data) ==
    /\ Len(calls) < MaxCalls
    /\ calls' = Append(calls, UpdateCall(current_user_id, webhook_id, webhook_data))
    /\ UNCHANGED << webhook_configs, next_webhook_uuid, resp >>
    /\ UNCHANGED << webhook_logs, next_log_uuid, github_webhook_secret, call,
                    log_store_writable >>
    /\ UsersAndTokensUnchanged
    /\ ClockUnchanged

UpdateWebhookStep(i) ==
    /\ i \in DOMAIN calls
    /\ calls[i].pc # "done"
    /\ LET s == update_webhook_step(webhook_configs, calls[i], now) IN
       /\ webhook_configs' = s.files
       /\ calls' = [calls EXCEPT ![i] = s.c]
    /\ UNCHANGED << next_webhook_uuid, resp >>
    /\ UNCHANGED << webhook_logs, next_log_uuid, github_webhook_secret, call,
                    log_store_writable >>
    /\ UsersAndTokensUnchanged
    /\ ClockUnchanged

NextUpdateRace ==
    \/ \E target \in RacingTargets, webhook_data \in RacingUpdates :
           StartUpdate(target[1], target[2], webhook_data)
    \/ \E i \in Callers : UpdateWebhookStep(i)
    \/ \E d \in TickSteps : Tick(d)

SpecUpdateRace == InitUpdateRace /\ [][NextUpdateRace]_vars

\* ------------------------------------------------------------ properties
StoredUsers(store) == { store.users[u] : u \in DOMAIN store.users }

WithUsername(store, username) ==
    { u \in StoredUsers(store) : lower(u.username) = lower(username) }

UnknownUsername(store, username) == WithUsername(store, username) = {}

NoPasswordHash(store, username) ==
    \E u \in WithUsername(store, username) : u.password_hash = None

WrongPassword(store, username, password, salt) ==
    \E u \in WithUsername(store, username) :
        /\ u.password_hash # None
        /\ ~verify_password(password, u.password_hash[1], salt)

\* C4: authenticate returns null and leaves every stored identity and both
\* indexes as they were whenever the username is not found (compared without
\* regard to case), the identity found has no password_hash, or the password
\* does not verify against its password_hash.
C4_FailedAuthenticateChangesNothing ==
    [][ ( /\ resp'.op = "login"
          /\ \/ UnknownUsername(user_store, resp'.username)
             \/ NoPasswordHash(user_store, resp'.username)
             \/ WrongPassword(user_store, resp'.username, resp'.password,
                              PASSWORD_SALT) )
        => ( /\ resp'.user = None
             /\ resp'.token = None
             /\ user_store' = user_store ) ]_vars

\* a login under another spelling of the username of an identity that has no
\* password_hash was turned down
C4_Witness ==
    /\ resp.op = "login"
    /\ resp.user = None
    /\ \E u \in WithUsername(user_store, resp.username) :
          u.password_hash = None /\ u.username # resp.username

\* C5: authenticate returns null, and login fails with 401 and issues no
\* token, for every identity whose is_active is false, also when the password
\* is the right one.
C5_InactiveIdentityCannotLogIn ==
    ( /\ resp.op = "login"
      /\ \E u \in WithUsername(user_store, resp.username) : ~u.is_active )
    => ( /\ resp.user = None
         /\ resp.status = HTTP_401_UNAUTHORIZED
         /\ resp.token = None )

LoginOutcome(r) ==
    [status |-> r.status, detail |-> r.detail, token |-> r.token,
     expires_at |-> r.expires_at]

GenericLoginFailure ==
    [status |-> HTTP_401_UNAUTHORIZED, detail |-> "Invalid username or password",
     token |-> None, expires_at |-> None]

\* C6: a login that fails because the username is unknown and a login that
\* fails because the password of a known username is wrong show the caller the
\* same status and the same detail: both show the one generic failure.
C6_UniformLoginFailure ==
    [][ ( /\ resp'.op = "login"
          /\ \/ UnknownUsername(user_store, resp'.username)
             \/ WrongPassword(user_store, resp'.username, resp'.password,
                              PASSWORD_SALT) )
        => LoginOutcome(resp') = GenericLoginFailure ]_vars

\* a login with a username nobody holds failed while other identities exist
C6_Witness ==
    /\ resp.op = "login"
    /\ UnknownUsername(user_store, resp.username)
    /\ StoredUsers(user_store) # {}
    /\ LoginOutcome(resp) = GenericLoginFailure

\* C7: a successful authenticate persists the identity with last_login set to
\* the time of the call and changes nothing else: the other fields of that
\* identity, every other stored identity and both indexes stay as they were.
C7_SuccessfulAuthenticateSetsOnlyLastLogin ==
    [][ (resp'.op = "login" /\ resp'.user # None)
        => \E user_id \in DOMAIN user_store.users :
              /\ lower(user_store.users[user_id].username) = lower(resp'.username)
              /\ user_store' =
                     [user_store EXCEPT !.users[user_id].last_login = Some(now)]
              /\ resp'.user = Some(user_store'.users[user_id]) ]_vars

\* a login succeeded after the clock moved on, with a second identity stored
C7_Witness ==
    /\ resp.op = "login"
    /\ resp.user # None
    /\ resp.user[1].created_at < now
    /\ resp.user[1].last_login = Some(now)
    /\ Cardinality(DOMAIN user_store.users) = 2

\* C9: register fails with a conflict, persists no new identity and leaves
\* both indexes as they were whenever a stored identity already has that
\* username or that email, compared without regard to case.
C9_RegisterConflictChangesNothing ==
    [][ ( /\ resp'.op = "register"
          /\ \E u \in StoredUsers(user_store) :
                \/ lower(u.username) = lower(resp'.username)
                \/ lower(u.email) = lower(resp'.email) )
        => ( /\ resp'.status = HTTP_400_BAD_REQUEST
             /\ resp'.detail \in { <<"Username already exists", resp'.username>>,
                                   <<"Email already exists", resp'.email>> }
             /\ resp'.body = None
             /\ user_store' = user_store
             /\ next_uuid' = next_uuid ) ]_vars

\* a registration was refused for an email that a stored identity holds in
\* another letter case
C9_Witness ==
    /\ resp.op = "register"
    /\ resp.status = HTTP_400_BAD_REQUEST
    /\ resp.detail[1] = "Email already exists"
    /\ \E u \in StoredUsers(user_store) :
          lower(u.email) = lower(resp.email) /\ u.email # resp.email

\* C10: a successful register persists exactly one new identity with a fresh
\* user_id, is_active true, email_verified false, no last_login and
\* password_hash = hash(password); right afterwards the identity is resolved by
\* its user_id, by its username and by its email in any letter case, and
\* authenticate(username, password) succeeds.
C10_RegisterPersistsOneNewIdentity ==
    [][ (resp'.op = "register" /\ resp'.status = HTTP_201_CREATED)
        => LET id == resp'.body[1].user_id
               identity ==
                   [user_id |-> id,
                    username |-> resp'.username,
                    email |-> resp'.email,
                    password_hash |->
                        Some(get_password_hash(resp'.password, PASSWORD_SALT)),
                    github_id |-> None, gitlab_id |-> None, bitbucket_id |-> None,
                    created_at |-> now,
                    last_login |-> None,
                    is_active |-> TRUE,
                    email_verified |-> FALSE]
               auth == authenticate_user(user_store', resp'.username,
                                         resp'.password, PASSWORD_SALT, now)
           IN  /\ id \notin DOMAIN user_store.users
               /\ id >= next_uuid
               /\ DOMAIN user_store'.users = DOMAIN user_store.users \cup {id}
               /\ \A u \in DOMAIN user_store.users :
                     user_store'.users[u] = user_store.users[u]
               /\ user_store'.users[id] = identity
               /\ get_user(user_store', id) = Found(identity)
               /\ \A v \in Usernames :
                     lower(v) = lower(resp'.username)
                         => get_user_by_username(user_store', v) = Found(identity)
               /\ \A e \in Emails :
                     lower(e) = lower(resp'.email)
                         => get_user_by_email(user_store', e) = Found(identity)
               /\ auth.user # None
               /\ auth.user[1].user_id = id ]_vars

\* an identity was registered under a username with a capital letter, with a
\* user_id that no earlier identity had
C10_Witness ==
    /\ resp.op = "register"
    /\ resp.status = HTTP_201_CREATED
    /\ resp.username = <<"A","l">>
    /\ resp.body[1].user_id = 2

\* what the claim asks of a token at verification time
SignatureVerifies(token) == token.mac = HS256(JWT_SECRET_KEY, token.payload)

Acceptable(store, token, t) ==
    /\ token.wellformed
    /\ SignatureVerifies(token)
    /\ t < token.payload.exp
    /\ token.payload.sub # None
    /\ token.payload.sub[1] \in DOMAIN store.users

\* C2: token verification never fails open: it yields an identity only if the
\* token is well formed, its signature verifies under the signing key of the
\* process, now < expires_at, it carries a subject and the subject is a stored
\* user (then the identity is that user and the token is one the server
\* issued); in every other case it fails with 401.
C2_VerifyNeverFailsOpen ==
    [][ resp'.op = "verify"
        => /\ resp'.status \in {HTTP_200_OK, HTTP_401_UNAUTHORIZED}
           /\ (resp'.status = HTTP_200_OK) <=> (resp'.user # None)
           /\ (resp'.status = HTTP_200_OK)
                 <=> Acceptable(user_store, resp'.token, now)
           /\ (resp'.status = HTTP_200_OK)
                 => /\ held_token # None
                    /\ resp'.token = held_token[1].token
                    /\ resp'.user =
                           Some(user_store.users[resp'.token.payload.sub[1]]) ]_vars

\* a token of the server whose payload was altered afterwards, not expired and
\* naming a stored user, was refused
C2_Witness ==
    /\ resp.op = "verify"
    /\ resp.status = HTTP_401_UNAUTHORIZED
    /\ resp.token.wellformed
    /\ resp.token.mac.key = JWT_SECRET_KEY
    /\ ~SignatureVerifies(resp.token)
    /\ now < resp.token.payload.exp
    /\ resp.token.payload.sub # None
    /\ resp.token.payload.sub[1] \in DOMAIN user_store.users

\* C3: the token that login returns for a registered user U expires at issue
\* time + ttl and names U; verifying it strictly before expires_at, with U
\* still registered, yields the identity whose user_id is U's, and verifying it
\* at or after expires_at fails with 401.
C3_LoginTokenValidUntilExpiry ==
    [][ /\ (resp'.op = "login" /\ resp'.status = HTTP_200_OK)
           => \E user_id \in DOMAIN user_store.users :
                 /\ lower(user_store.users[user_id].username) = lower(resp'.username)
                 /\ resp'.token[1].payload.sub = Some(user_id)
                 /\ resp'.token[1].payload.exp = now + JWT_EXPIRATION_MINUTES
                 /\ SignatureVerifies(resp'.token[1])
        /\ ( /\ resp'.op = "verify"
             /\ held_token # None
             /\ held_token[1].issued_by = "login"
             /\ resp'.token = held_token[1].token )
           => LET payload == resp'.token.payload IN
              /\ payload.exp = held_token[1].issued_at + JWT_EXPIRATION_MINUTES
              /\ (now < payload.exp /\ payload.sub[1] \in DOMAIN user_store.users)
                    => /\ resp'.status = HTTP_200_OK
                       /\ resp'.user[1].user_id = payload.sub[1]
              /\ now >= payload.exp => resp'.status = HTTP_401_UNAUTHORIZED ]_vars

\* the token of a login was verified in the last minute of its life
C3_Witness ==
    /\ resp.op = "verify"
    /\ resp.status = HTTP_200_OK
    /\ held_token # None
    /\ held_token[1].issued_by = "login"
    /\ resp.token = held_token[1].token
    /\ now = resp.token.payload.exp - 1
    /\ now > held_token[1].issued_at

\* the token of a login was refused at the minute it expires
C3_WitnessExpired ==
    /\ resp.op = "verify"
    /\ resp.status = HTTP_401_UNAUTHORIZED
    /\ held_token # None
    /\ held_token[1].issued_by = "login"
    /\ resp.token = held_token[1].token
    /\ now = resp.token.payload.exp

WebhookOps ==
    { "create_webhook", "list_webhooks", "get_webhook", "update_webhook",
      "delete_webhook" }

NotOwnedBy(files, a) ==
    { path \in DOMAIN files : files[path].user_id # a \/ path[1] # a }

\* C1: in every create/get/update/delete/list issued by identity A, the
\* registrations of every other identity stay stored and unchanged, and every
\* registration returned to A is a stored registration owned by A; none has
\* the id of a registration owned by somebody else.
C1_WebhookIsolation ==
    [][ resp'.op \in WebhookOps
        => LET a == resp'.caller IN
           /\ \A path \in NotOwnedBy(webhook_configs, a) :
                 /\ path \in DOMAIN webhook_configs'
                 /\ webhook_configs'[path] = webhook_configs[path]
           /\ \A r \in resp'.returned :
                 /\ \E path \in DOMAIN webhook_configs' :
                       /\ path = << a, r.webhook_id >>
                       /\ webhook_configs'[path].user_id = a
                       /\ r = WebhookConfigResponse(webhook_configs'[path])
                 /\ \A path \in NotOwnedBy(webhook_configs', a) :
                       webhook_configs'[path].webhook_id # r.webhook_id ]_vars

\* an identity that has a registration of its own asked to delete the
\* registration of another identity, which is still stored
C1_Witness ==
    /\ resp.op = "delete_webhook"
    /\ \E path \in NotOwnedBy(webhook_configs, resp.caller) :
          webhook_configs[path].webhook_id = resp.webhook_id
    /\ \E path \in DOMAIN webhook_configs :
          webhook_configs[path].user_id = resp.caller

\* C11: whatever sequence of register, login and delete_user calls has run, no
\* two stored identities share a lower-cased username or a lower-cased email,
\* each index maps exactly the lower-cased usernames (emails) of the stored
\* identities, each to the user_id of the identity that holds it, and no index
\* entry names an identity that is not stored.
C11_UniquenessInvariant ==
    LET users == user_store.users IN
    /\ \A u1, u2 \in DOMAIN users :
          u1 # u2 => /\ lower(users[u1].username) # lower(users[u2].username)
                     /\ lower(users[u1].email) # lower(users[u2].email)
    /\ DOMAIN user_store.username_index = { lower(users[u].username) : u \in DOMAIN users }
    /\ DOMAIN user_store.email_index = { lower(users[u].email) : u \in DOMAIN users }
    /\ \A u \in DOMAIN users :
          /\ users[u].user_id = u
          /\ user_store.username_index[lower(users[u].username)] = u
          /\ user_store.email_index[lower(users[u].email)] = u

\* two identities were registered, one has been deleted and one is still stored
C11_Witness ==
    /\ resp.op = "delete_user"
    /\ next_uuid = 3
    /\ Cardinality(DOMAIN user_store.users) = 1
    /\ Cardinality(DOMAIN user_store.username_index) = 1

\* the step of an inbound call in which the signature is decided
SignatureStep == call.pc = "verify" /\ call'.pc # "verify"

\* the signature decision made in that step, given which headers count as sent
SignatureDecision(sent) ==
    LET request == call.request
        secret == call'.webhook_secret
        performed == call'.verification \in { "passed", "failed" }
    IN  /\ performed <=> (Truthy(secret) /\ sent)
        /\ performed =>
             (call'.verification = "passed" <=>
                request.x_hub_signature_256[1] =
                    [prefix |-> "sha256=",
                     hexdigest |-> Some([digestmod |-> "sha256", key |-> secret[1],
                                         msg |-> request.body])])
        /\ ~performed => call'.verification = "skipped"
        /\ call'.verification \in { "passed", "skipped" } =>
             call'.pc = "dispatch" /\ call'.response = None
        /\ call'.verification = "failed" => call'.pc = "done"

\* C12 as stated: the signature is verified iff a non-empty secret is resolved
\* and a signature header is present, it then passes iff the header is
\* 'sha256=' followed by the hex HMAC-SHA256 of the raw body under that secret,
\* and otherwise the call is accepted unverified.
C12_SignatureDecision ==
    [][SignatureStep => SignatureDecision(call.request.x_hub_signature_256 # None)]_vars

\* C12 amended: the signature is verified iff a non-empty secret is resolved
\* and a signature header with a non-empty value is present; it then passes
\* iff the header is 'sha256=' followed by the hex HMAC-SHA256 of the raw body
\* under that secret; with no secret, no header or an empty header the call is
\* accepted unverified.
C12_SignatureDecisionNonEmptyHeader ==
    [][SignatureStep =>
         SignatureDecision(SignatureTruthy(call.request.x_hub_signature_256))]_vars

\* a delivery signed under the secret stored for the registration has passed
\* verification
C12_Witness ==
    /\ call.pc = "dispatch"
    /\ call.verification = "passed"
    /\ call.webhook_secret = Some(SECRET_DISPLAY)

\* the stored delivery log of the call c, if the call created one
LogPath(c) == get_webhook_log_path(c.webhook_log[1].user_id, c.webhook_log[1].log_id)

\* the signature sent with the call c is checked against the secret and differs
Mismatch(c, secret) ==
    /\ Truthy(secret)
    /\ SignatureTruthy(c.request.x_hub_signature_256)
    /\ c.request.x_hub_signature_256[1] # GitHubSignature(secret[1], c.request.body)

C14_RejectedSignatureIsLogged ==
    (/\ call.pc = "done"
     /\ call.verification = "failed"
     /\ Paired(call.request)) =>
        /\ call.webhook_log # None
        /\ LogPath(call) \in DOMAIN webhook_logs

\* the registration the call c names, if it is stored under the owner it names
NamedRegistration(c) ==
    IF /\ Paired(c.request)
       /\ << c.request.user_id[1], c.request.webhook_id[1] >> \in DOMAIN webhook_configs
    THEN Some(webhook_configs[<< c.request.user_id[1], c.request.webhook_id[1] >>])
    ELSE None

\* C15: the secret a call is verified against is the secret of the registration
\* named by its (owner_id, webhook_id) pair when that registration is stored
\* and its secret is non-empty, and the global secret in every other case: no
\* pair, no such registration, or a registration without a secret.
C15_SecretResolution ==
    [][SignatureStep =>
         call'.webhook_secret =
            IF /\ NamedRegistration(call) # None
               /\ NamedRegistration(call)[1].secret # None
               /\ NamedRegistration(call)[1].secret[1] # ""
            THEN NamedRegistration(call)[1].secret
            ELSE github_webhook_secret]_vars

\* with a global secret configured, a call naming alice's registration has been
\* checked against the registration's own secret
C15_Witness ==
    /\ call.pc \in { "dispatch", "done" }
    /\ call.verification # "skipped"
    /\ github_webhook_secret = Some("global_webhook_secret")
    /\ call.request.user_id = Some(1)
    /\ call.request.webhook_id = Some(1)
    /\ call.webhook_secret = Some(SECRET_DISPLAY)

\* a call naming bob's registration, which has no secret, has been checked
\* against the global secret
C15_WitnessFallback ==
    /\ call.pc \in { "dispatch", "done" }
    /\ call.verification # "skipped"
    /\ call.request.user_id = Some(2)
    /\ call.webhook_secret = Some("global_webhook_secret")

\* the step that ends an inbound call
CallEnds == call.pc \notin { "idle", "done" } /\ call'.pc = "done"

\* the body of the call c parsed to a payload with action, repository and sender
ValidPayload(c) ==
    /\ c.payload_dict # None
    /\ c.payload_dict[1].action # None
    /\ c.payload_dict[1].repository # None
    /\ c.payload_dict[1].sender # None

\* the call c passed the signature check with an allow-listed pull request
\* event and a structurally valid payload
AllowListed(c) ==
    /\ c.verification \in { "passed", "skipped" }
    /\ c.request.x_github_event = "pull_request"
    /\ ValidPayload(c)
    /\ c.payload_dict[1].action[1] \in { "opened", "synchronize", "reopened" }

\* C16: by the time an inbound call ends, the automation engine has been
\* invoked exactly once for it if it passed the signature check with a pull
\* request event whose action is opened, synchronize or reopened and whose
\* payload is structurally valid, and not at all otherwise; at no point of a
\* call has the engine been invoked for it more than once.
C16_AllowListDispatch ==
    [][/\ CallEnds => call'.engine_calls = IF AllowListed(call') THEN 1 ELSE 0
       /\ call'.pc # "idle" => call'.engine_calls <= 1
       /\ (call.pc \notin { "idle", "done" } /\ call'.engine_calls # call.engine_calls) =>
              call.pc = "dispatch" /\ call'.pc = "engine"]_vars

\* a pull request "opened" delivery has ended after one engine invocation
C16_Witness ==
    /\ call.pc = "done"
    /\ call.engine_calls = 1
    /\ call.request.x_github_event = "pull_request"
    /\ call.response[1].status = HTTP_200_OK

\* an issues "opened" delivery has ended without any engine invocation
C16_WitnessOtherEvent ==
    /\ call.pc = "done"
    /\ call.engine_calls = 0
    /\ call.request.x_github_event = "issues"
    /\ call.payload_dict # None
    /\ call.response[1].status = HTTP_200_OK

\* the (event, action) of the call c is not one of the allow-listed pairs
NotInAllowList(c) ==
    \/ c.request.x_github_event # "pull_request"
    \/ /\ c.payload_dict # None
       /\ \/ c.payload_dict[1].action = None
          \/ c.payload_dict[1].action[1] \notin { "opened", "synchronize", "reopened" }

\* the call ends with the "ignored" result and its log, if any, stored as
\* SUCCESS with the message that the event was not processed
EndsIgnored ==
    /\ call'.response # None
    /\ call'.response[1].status = HTTP_200_OK
    /\ call'.response[1].body.status = "ignored"
    /\ call'.engine_calls = 0
    /\ call.webhook_log # None =>
         /\ LogPath(call) \in DOMAIN webhook_logs'
         /\ webhook_logs'[LogPath(call)].status = "success"
         /\ webhook_logs'[LogPath(call)].error_message =
              Some(<< "Event ", call.request.x_github_event, " with action ",
                      call.payload_dict[1].action, " not processed" >>)

\* C17: every call that passes the signature check and whose
\* (event, action) is not allow-listed ends with the "ignored" result, never a
\* failure, and its log, if any, ends as SUCCESS with the not-processed message.
C17_NotAllowListedIsIgnored ==
    [][(/\ CallEnds
        /\ call'.verification \in { "passed", "skipped" }
        /\ NotInAllowList(call')) => EndsIgnored]_vars

\* what the handler does deliver: a call that passes the signature check, whose
\* body parses as a JSON object, whose payload, for a pull_request event, has
\* action, repository and sender, and whose (event, action) is not allow-listed
\* ends with the "ignored" result and its log, if any, as SUCCESS with the
\* not-processed message.
WellFormedNotAllowListedIsIgnored ==
    [][(/\ CallEnds
        /\ call'.verification \in { "passed", "skipped" }
        /\ NotInAllowList(call')
        /\ call'.payload_dict # None
        /\ call'.request.x_github_event = "pull_request" => ValidPayload(call'))
          => EndsIgnored]_vars

\* a pull request "closed" delivery that created a log has ended as ignored
IgnoredWithLog ==
    /\ call.pc = "done"
    /\ call.request.x_github_event = "pull_request"
    /\ call.response[1].status = HTTP_200_OK
    /\ call.response[1].body.status = "ignored"
    /\ call.webhook_log # None
    /\ webhook_logs[LogPath(call)].status = "success"

\* the step in which process_pr_event returns
EngineReturned == call.pc = "engine" /\ call'.pc = "done" /\ resp'.at = "engine returned"

\* C18: when the engine returns for an allow-listed event, the caller receives
\* the engine's result and the delivery log, if any, is stored as SUCCESS with
\* response_status equal to the status code the engine reported.
C18_LogCarriesEngineStatus ==
    [][EngineReturned =>
         /\ call'.response # None
         /\ call'.response[1].status = HTTP_200_OK
         /\ call'.response[1].body.result.status_code \in EngineStatusCodes
         /\ call.webhook_log # None =>
              /\ webhook_logs'[LogPath(call)].status = "success"
              /\ webhook_logs'[LogPath(call)].response_status =
                   Some(call'.response[1].body.result.status_code)]_vars

\* the step in which payload extraction or the engine call raises
DispatchRaises ==
    \/ /\ call.pc = "dispatch" /\ call'.pc # "dispatch"
       /\ \/ call.payload_dict = None
          \/ call.request.x_github_event = "pull_request" /\ ~ValidPayload(call)
    \/ call.pc = "engine" /\ call'.pc = "done" /\ resp'.at = "engine raised"

C19_WitnessValidation ==
    /\ call.pc = "done"
    /\ call.engine_calls = 0
    /\ call.verification # "failed"
    /\ call.response[1].status = HTTP_400_BAD_REQUEST
    /\ call.webhook_log # None
    /\ webhook_logs[LogPath(call)].status = "failure"

PendingLogMissing(c) ==
    /\ Paired(c.request)
    /\ \/ c.webhook_log = None
       \/ LogPath(c) \notin DOMAIN webhook_logs

\* the call c as it would be had its PENDING log been created, and the store
\* holding that log
LogOf(c) ==
    IF c.webhook_log # None THEN c.webhook_log[1]
    ELSE create_webhook_log(c.request.webhook_id[1], c.request.user_id[1],
                            IF c.request.x_github_event = "pull_request"
                            THEN "pull_request" ELSE "all",
                            None, None, "pending", <<>>, next_log_uuid, now)
WithLog(c) == [c EXCEPT !.webhook_log = Some(LogOf(c))]
LogsWithLog(c) ==
    DictSet(webhook_logs, get_webhook_log_path(LogOf(c).user_id, LogOf(c).log_id),
            LogOf(c))

\* what the sender and the engine see of a call
Outcome(c) ==
    [pc |-> c.pc, verification |-> c.verification,
     engine_calls |-> c.engine_calls, response |-> c.response]

WithoutLog(c) == [c EXCEPT !.webhook_log = None]

\* C23: a log store that rejects a write is never surfaced to the sender: the
\* response of a call that ends while the store rejects writes is the response
\* the same step gives when there is nothing to write.
C23_LogStoreFailureIsNotSurfaced ==
    [][(CallEnds /\ ~log_store_writable) =>
            CASE call.pc = "verify" ->
                    call'.response =
                        github_webhook_verify(webhook_configs, webhook_logs,
                            github_webhook_secret, WithoutLog(call)).call.response
              [] call.pc = "dispatch" ->
                    call'.response =
                        github_webhook_dispatch(webhook_logs,
                                                WithoutLog(call)).call.response
              [] call.pc = "engine" /\ resp'.at = "engine returned" ->
                    \E status_code \in EngineStatusCodes :
                        call'.response =
                            github_webhook_engine_returned(webhook_logs,
                                WithoutLog(call), EngineResult(status_code)).call.response
              [] call.pc = "engine" /\ resp'.at = "engine raised" ->
                    \E error \in EngineErrors :
                        call'.response =
                            github_webhook_failed(webhook_logs, WithoutLog(call),
                                                  error).call.response
              [] OTHER -> TRUE]_vars

\* C24: a body that cannot be parsed does not abort the call: when the pair is
\* supplied a PENDING log is stored with repository and pr_number null, the
\* signature is still verified over the raw body, and an event that is not
\* processed ends as ignored with 200, not as a failure.
C24_UnparsedBodyDoesNotAbort ==
    [][/\ (/\ call.pc \in { "idle", "done" }
           /\ call' # call
           /\ call'.payload_dict = None
           /\ Paired(call'.request)) =>
                /\ call'.webhook_log # None
                /\ LogPath(call') \in DOMAIN webhook_logs'
                /\ webhook_logs'[LogPath(call')].status = "pending"
                /\ webhook_logs'[LogPath(call')].repository = None
                /\ webhook_logs'[LogPath(call')].pr_number = None
       /\ (/\ SignatureStep
           /\ call.payload_dict = None) =>
                SignatureDecision(SignatureTruthy(call.request.x_hub_signature_256))
       /\ (/\ CallEnds
           /\ call.pc = "dispatch"
           /\ call.payload_dict = None
           /\ call.request.x_github_event # "pull_request") =>
                /\ call'.response[1].status = HTTP_200_OK
                /\ call'.response[1].body.status = "ignored"]_vars

\* the request answered in this step names a registration that is stored and
\* owned by an identity other than the caller
CrossOwner(op) ==
    /\ resp'.op = op
    /\ \E path \in DOMAIN webhook_configs :
          /\ webhook_configs[path].webhook_id = resp'.webhook_id
          /\ webhook_configs[path].user_id # resp'.caller

\* C25: a get of a webhook id that is stored and owned by another identity is
\* answered 404 with no registration, exactly as a get of an id that is stored
\* nowhere.
C25_CrossOwnerGetIsNotFound ==
    [][CrossOwner("get_webhook") =>
            /\ resp'.status = HTTP_404_NOT_FOUND
            /\ resp'.returned = {}
            /\ LET missing == get_webhook(<<>>, resp'.caller, resp'.webhook_id) IN
               /\ resp'.status = missing.status
               /\ resp'.returned = missing.returned]_vars

\* an identity asked for the registration of another identity and got 404
C25_Witness ==
    /\ resp.op = "get_webhook"
    /\ resp.status = HTTP_404_NOT_FOUND
    /\ \E path \in DOMAIN webhook_configs :
          /\ webhook_configs[path].webhook_id = resp.webhook_id
          /\ webhook_configs[path].user_id # resp.caller

C27_DeleteIsIdempotent ==
    [][resp'.op = "delete_webhook" =>
        LET a == resp'.caller
            w == resp'.webhook_id
            own == get_webhook_config_path(a, w)
            again == delete_webhook(webhook_configs', a, w)
        IN  /\ resp'.status = HTTP_204_NO_CONTENT
            /\ resp'.returned = {}
            /\ own \notin DOMAIN webhook_configs => webhook_configs' = webhook_configs
            /\ own \in DOMAIN webhook_configs =>
                    webhook_configs' = DictDel(webhook_configs, own)
            /\ get_webhook(webhook_configs', a, w).status = HTTP_404_NOT_FOUND
            /\ \A r \in list_webhooks(webhook_configs', a).returned : r.webhook_id # w
            /\ again.status = HTTP_204_NO_CONTENT
            /\ again.files = webhook_configs']_vars

\* an identity that has a registration deleted an id that was never issued and
\* was answered 204
C27_Witness ==
    /\ resp.op = "delete_webhook"
    /\ resp.status = HTTP_204_NO_CONTENT
    /\ resp.webhook_id >= next_webhook_uuid
    /\ \E path \in DOMAIN webhook_configs : webhook_configs[path].user_id = resp.caller

\* a registration was issued and has been deleted by its owner
C27_WitnessDeleted ==
    /\ resp.op = "delete_webhook"
    /\ resp.webhook_id < next_webhook_uuid
    /\ \A path \in DOMAIN webhook_configs :
          webhook_configs[path].webhook_id # resp.webhook_id

\* the registration that the create answered in this step built, before it was
\* saved
Created ==
    LET d == resp'.webhook_data IN
    create_webhook_config(resp'.caller, d.name, d.url, d.events, d.repository,
                          d.secret, resp'.webhook_id, now)

\* the fields of a registration other than updated_at, with or without the secret
AllButUpdatedAt(webhook) ==
    [webhook_id |-> webhook.webhook_id, user_id |-> webhook.user_id,
     name |-> webhook.name, url |-> webhook.url, events |-> webhook.events,
     repository |-> webhook.repository, secret |-> webhook.secret,
     status |-> webhook.status, created_at |-> webhook.created_at]
AllButUpdatedAtAndSecret(webhook) == [AllButUpdatedAt(webhook) EXCEPT !.secret = None]

\* C28: a create persists a registration whose webhook_id no stored registration
\* has and whose status is ACTIVE, and a get that follows returns a registration
\* equal to the created one in every field, except that updated_at may be later.
C28_CreateGetRoundTrip ==
    [][resp'.op = "create_webhook" =>
        LET got == get_webhook_config(webhook_configs', resp'.caller, resp'.webhook_id)
        IN  /\ resp'.status = HTTP_201_CREATED
            /\ \A path \in DOMAIN webhook_configs :
                  webhook_configs[path].webhook_id # resp'.webhook_id
            /\ got.exc = "none"
            /\ got.config[1].status = "active"
            /\ AllButUpdatedAt(got.config[1]) = AllButUpdatedAt(Created)
            /\ got.config[1].updated_at >= Created.updated_at]_vars

\* the same round trip with the secret left out of the comparison, and as the
\* routes answer it: the get returns what the create returned
CreateGetRoundTripExceptSecret ==
    [][resp'.op = "create_webhook" =>
        LET got == get_webhook_config(webhook_configs', resp'.caller, resp'.webhook_id)
        IN  /\ resp'.status = HTTP_201_CREATED
            /\ \A path \in DOMAIN webhook_configs :
                  webhook_configs[path].webhook_id # resp'.webhook_id
            /\ got.exc = "none"
            /\ got.config[1].status = "active"
            /\ AllButUpdatedAtAndSecret(got.config[1]) = AllButUpdatedAtAndSecret(Created)
            /\ got.config[1].updated_at >= Created.updated_at
            /\ get_webhook(webhook_configs', resp'.caller, resp'.webhook_id).returned
                  = resp'.returned]_vars

\* the registration the update answered in this step was issued for, when the
\* caller has it
Updated == get_webhook_config_path(resp'.caller, resp'.webhook_id)

\* every registration but the updated one is stored as it was
OthersUnchanged ==
    /\ DOMAIN webhook_configs' = DOMAIN webhook_configs
    /\ \A path \in DOMAIN webhook_configs \ { Updated } :
          webhook_configs'[path] = webhook_configs[path]

\* the name, url, events, repository and status of the updated registration are
\* the supplied values where one was supplied and the stored ones elsewhere,
\* and its webhook_id, owner and created_at are the stored ones
FieldsButSecretOverwritten ==
    LET old == webhook_configs[Updated]
        new == webhook_configs'[Updated]
        d == resp'.webhook_data
    IN  /\ new.name = IF d.name # None THEN d.name[1] ELSE old.name
        /\ new.url = IF d.url # None THEN d.url[1] ELSE old.url
        /\ new.events = IF d.events # None THEN d.events[1] ELSE old.events
        /\ new.repository = IF d.repository # None THEN d.repository ELSE old.repository
        /\ new.status = IF d.status # None THEN d.status[1] ELSE old.status
        /\ new.webhook_id = old.webhook_id
        /\ new.user_id = old.user_id
        /\ new.created_at = old.created_at

\* C29: an update overwrites exactly the fields supplied among name, url,
\* events, repository, secret and status, leaves every field that was not
\* supplied and webhook_id, owner and created_at as stored, and leaves every
\* other registration unchanged.
C29_UpdateOverwritesSuppliedFields ==
    [][(resp'.op = "update_webhook" /\ Updated \in DOMAIN webhook_configs) =>
        LET old == webhook_configs[Updated]
            new == webhook_configs'[Updated]
            d == resp'.webhook_data
        IN  /\ resp'.status = HTTP_200_OK
            /\ OthersUnchanged
            /\ FieldsButSecretOverwritten
            /\ new.secret = IF d.secret # None THEN d.secret ELSE old.secret]_vars

\* the same with the secret as it is stored: the display text of the supplied
\* secret, or the stored text when none was supplied
UpdateOverwritesSuppliedFieldsSecretMasked ==
    [][(resp'.op = "update_webhook" /\ Updated \in DOMAIN webhook_configs) =>
        LET old == webhook_configs[Updated]
            new == webhook_configs'[Updated]
            d == resp'.webhook_data
        IN  /\ resp'.status = HTTP_200_OK
            /\ OthersUnchanged
            /\ FieldsButSecretOverwritten
            /\ new.secret = IF d.secret # None THEN Some(secret_display(d.secret[1]))
                            ELSE old.secret]_vars

\* a registration was updated with some fields supplied and status not, and is
\* stored next to another registration
PartialUpdateStored ==
    /\ resp.op = "update_webhook"
    /\ resp.status = HTTP_200_OK
    /\ resp.webhook_data.name # None
    /\ resp.webhook_data.status = None
    /\ Cardinality(DOMAIN webhook_configs) = 2

\* C30: updated_at is refreshed on every mutation. A create or update that
\* persists a registration stores it with updated_at equal to the time of the
\* write; every stored registration has updated_at >= created_at; and the
\* updated_at of a registration never decreases from one write to the next.
C30_UpdatedAtIsRefreshed ==
    [][/\ (/\ resp'.op \in { "create_webhook", "update_webhook" }
           /\ resp'.status \in { HTTP_200_OK, HTTP_201_CREATED }) =>
                /\ Updated \in DOMAIN webhook_configs'
                /\ webhook_configs'[Updated].updated_at = now
                /\ \A r \in resp'.returned : r.updated_at = now
       /\ \A path \in DOMAIN webhook_configs' :
             webhook_configs'[path].updated_at >= webhook_configs'[path].created_at
       /\ \A path \in DOMAIN webhook_configs \cap DOMAIN webhook_configs' :
             webhook_configs'[path].updated_at >= webhook_configs[path].updated_at]_vars

\* a registration was updated at a later time than it was created
C30_Witness ==
    /\ resp.op = "update_webhook"
    /\ resp.status = HTTP_200_OK
    /\ \E path \in DOMAIN webhook_configs :
          /\ webhook_configs[path].webhook_id = resp.webhook_id
          /\ webhook_configs[path].updated_at > webhook_configs[path].created_at

\* the stored logs that a list request of the caller for the filter matches
Matching(caller, webhook_id) ==
    { webhook_logs[path] : path \in
        { q \in DOMAIN webhook_logs :
            /\ webhook_logs[q].user_id = caller
            /\ (webhook_id = None \/ webhook_logs[q].webhook_id = webhook_id[1]) } }

\* C31: a list of delivery logs returns the first `limit` of the owner's stored
\* logs (of the given webhook, when one is given) in descending order of
\* created_at: min(limit, number of matching logs) distinct matching logs,
\* newest first, and no matching log left out is newer than one returned.
C31_ListLogsReturnsMostRecent ==
    resp.op = "list_webhook_logs" =>
        LET matching == { WebhookLogResponse(log) :
                            log \in Matching(resp.caller, resp.webhook_id) }
            returned == resp.returned
            n == IF resp.limit < Cardinality(matching) THEN resp.limit
                 ELSE Cardinality(matching)
        IN  /\ resp.status = HTTP_200_OK
            /\ Len(returned) = n
            /\ \A i \in 1..n : returned[i] \in matching
            /\ \A i, j \in 1..n : i # j => returned[i] # returned[j]
            /\ \A i, j \in 1..n : i < j => returned[i].created_at >= returned[j].created_at
            /\ \A log \in matching :
                  (\A i \in 1..n : returned[i] # log) =>
                      \A i \in 1..n : returned[i].created_at >= log.created_at

\* what does hold of every list: at most `limit` distinct logs, all of them the
\* caller's and of the filtered webhook, newest first among themselves, and all
\* matching logs when there are no more than `limit`
ListLogsReturnsSomeMatching ==
    resp.op = "list_webhook_logs" =>
        LET matching == { WebhookLogResponse(log) :
                            log \in Matching(resp.caller, resp.webhook_id) }
            returned == resp.returned
            n == IF resp.limit < Cardinality(matching) THEN resp.limit
                 ELSE Cardinality(matching)
        IN  /\ resp.status = HTTP_200_OK
            /\ Len(returned) = n
            /\ \A i \in 1..n : returned[i] \in matching
            /\ \A i, j \in 1..n : i # j => returned[i] # returned[j]
            /\ \A i, j \in 1..n : i < j => returned[i].created_at >= returned[j].created_at

Registered(i) ==
    /\ i \in DOMAIN calls
    /\ calls[i].pc = "done"
    /\ calls[i].status = HTTP_201_CREATED

Settled(i) == i \in DOMAIN calls /\ calls[i].pc = "done"

SameUsername(i, j) == lower(calls[i].username) = lower(calls[j].username)

\* the race was for the username of request i alone, and it is over: no
\* request for another username has rewritten the index meanwhile
RaceOver(i) ==
    \A k \in DOMAIN calls : SameUsername(i, k) /\ Settled(k)

LoginAs(store, i, j) ==
    authenticate_user(store, calls[i].username, calls[j].password,
                      PASSWORD_SALT, now).user

\* what is left when the requests i and j were both created under one username
Shadowing(i, j) ==
    LET a == calls[i].user[1]
        b == calls[j].user[1]
        key == lower(a.username)
        winner == user_store.username_index[key]
        got == get_user_by_username(user_store, a.username)
    IN  /\ a.user_id # b.user_id
        /\ get_user(user_store, a.user_id) = Found(a)
        /\ get_user(user_store, b.user_id) = Found(b)
        /\ key \in DOMAIN user_store.username_index
        /\ \E w \in DOMAIN calls :
               /\ Registered(w)
               /\ SameUsername(i, w)
               /\ winner = calls[w].user[1].user_id
               /\ got = Found(calls[w].user[1])
               /\ LoginAs(user_store, i, w) # None
               /\ LoginAs(user_store, i, w)[1].user_id = winner
               /\ \A l \in {i, j} :
                      calls[l].password # calls[w].password
                          => LoginAs(user_store, i, l) = None

\* a request that is past its two checks is created whatever the others do
PastChecksIsCreated(i) ==
    (i \in DOMAIN calls /\ calls[i].pc \in SaveSteps)
        => \/ calls'[i].pc \in SaveSteps
           \/ Registered(i)'

\* the username index points to the request that wrote it last
IndexPointsToLastWriter(i) ==
    (/\ i \in DOMAIN calls
     /\ calls[i].pc = "save_username_index"
     /\ calls'[i].pc # "save_username_index")
        => user_store'.username_index[lower(calls[i].username)]
               = calls[i].user[1].user_id

\* C32: when two register requests for one username both pass the checks
\* before either has written, both are answered 201 and both user records are
\* stored; the username index points to the one that wrote the index last, and
\* looking the username up or logging in with it reaches that one only.
C32_RegisterRaceShadows ==
    /\ [][ \A i \in Callers :
               PastChecksIsCreated(i) /\ IndexPointsToLastWriter(i) ]_vars
    /\ [](\A i, j \in Callers :
               (/\ i # j /\ Registered(i) /\ Registered(j)
                /\ SameUsername(i, j) /\ RaceOver(i))
                   => Shadowing(i, j))

C32_Witness ==
    /\ Registered(1) /\ Registered(2)
    /\ calls[1].username = <<"a","l">>
    /\ calls[2].username = <<"A","l">>
    /\ calls[1].user[1].user_id < calls[2].user[1].user_id
    /\ user_store.username_index[<<"a","l">>] = calls[1].user[1].user_id
    /\ LoginAs(user_store, 1, 2) = None

\* the whole record of the request c: the fields it supplied over the
\* registration it read, stamped when it saved
WholeRecord(c) ==
    LET d == c.webhook_data
        old == c.read[1]
    IN  dump_json([webhook_id |-> old.webhook_id,
                   user_id |-> old.user_id,
                   name |-> IF d.name # None THEN d.name[1] ELSE old.name,
                   url |-> IF d.url # None THEN d.url[1] ELSE old.url,
                   events |-> IF d.events # None THEN d.events[1] ELSE old.events,
                   repository |-> IF d.repository # None THEN d.repository
                                  ELSE old.repository,
                   secret |-> IF d.secret # None THEN d.secret ELSE old.secret,
                   status |-> IF d.status # None THEN d.status[1] ELSE old.status,
                   created_at |-> old.created_at,
                   updated_at |-> c.webhook[1].updated_at])

TargetOf(c) == get_webhook_config_path(c.current_user_id, c.webhook_id)

Updated200(i) ==
    /\ i \in DOMAIN calls
    /\ calls[i].pc = "done"
    /\ calls[i].status = HTTP_200_OK

Writes(i) ==
    /\ i \in DOMAIN calls
    /\ calls[i].pc = "file_store.write"
    /\ calls'[i].pc = "done"

\* the write of request i replaces the stored registration by its whole record
WriteReplacesWhole(i) ==
    Writes(i) =>
        /\ webhook_configs' =
               DictSet(webhook_configs, TargetOf(calls[i]), WholeRecord(calls[i]))
        /\ Updated200(i)'
        /\ calls'[i].returned = {WebhookConfigResponse(calls[i].webhook[1])}
        /\ calls[i].webhook[1].updated_at <= now

\* a request that has read the registration is answered 200 whatever the others do
ReadIsAnswered200(i) ==
    (i \in DOMAIN calls /\ calls[i].pc \in {"save_webhook_config", "file_store.write"})
        => \/ calls'[i].pc \in {"save_webhook_config", "file_store.write"}
           \/ Updated200(i)'

\* C33: two updates of one registration that interleave are both answered 200,
\* and the stored registration is the whole record of the one whose write
\* came last: its supplied fields over the registration it had read.
C33_UpdatesAreLastWriteWins ==
    /\ [][ /\ \A i \in Callers : WriteReplacesWhole(i) /\ ReadIsAnswered200(i)
           /\ (\A i \in Callers : ~Writes(i)) => UNCHANGED webhook_configs ]_vars
    /\ [](\A i \in Callers :
              Updated200(i) =>
                  \E w \in DOMAIN calls :
                      /\ TargetOf(calls[w]) = TargetOf(calls[i])
                      /\ calls[w].json_str # None
                      /\ webhook_configs[TargetOf(calls[i])] = WholeRecord(calls[w]))

\* both requests were answered 200 and the name the first one supplied is gone
C33_Witness ==
    /\ Updated200(1) /\ Updated200(2)
    /\ TargetOf(calls[1]) = <<1, 1>> /\ TargetOf(calls[2]) = <<1, 1>>
    /\ calls[1].webhook_data.name = Some("Updated Webhook")
    /\ calls[2].webhook_data.url = Some("https://example.com/updated")
    /\ calls[1].returned # {} /\ calls[2].returned # {}
    /\ webhook_configs[<<1, 1>>] = WholeRecord(calls[2])
    /\ webhook_configs[<<1, 1>>].name = "User 1 Webhook"
    /\ webhook_configs[<<1, 1>>].url = "https://example.com/updated"

PairwiseDistinct ==
    \A i, j \in DOMAIN calls :
        i # j => /\ lower(calls[i].username) # lower(calls[j].username)
                 /\ lower(calls[i].email) # lower(calls[j].email)

Resolvable(store, i) ==
    LET user == calls[i].user[1] IN
    /\ get_user_by_username(store, calls[i].username) = Found(user)
    /\ get_user_by_email(store, calls[i].email) = Found(user)
    /\ LoginAs(store, i, i) # None

\* C36: when register requests with pairwise distinct usernames and emails
\* interleave and all have been answered, every created user is found by its
\* username and by its email and can log in.
C36_IndexIntegrityUnderInterleaving ==
    (PairwiseDistinct /\ \A k \in DOMAIN calls : Settled(k))
        => \A i \in DOMAIN calls : Registered(i) => Resolvable(user_store, i)

\* the handler takes in a request
Receives == call.pc \in { "idle", "done" } /\ call'.pc = "verify"

\* C35: a delivery log is created for an inbound call exactly when the call
\* names both an owner and a webhook (neither of them empty); a call that
\* leaves one out writes no log at any step.
C35_LogCreatedIffPaired ==
    [][/\ Receives =>
            (Paired(call'.request) <=>
                /\ call'.webhook_log # None
                /\ LogPath(call') \in DOMAIN webhook_logs'
                /\ LogPath(call') \notin DOMAIN webhook_logs)
       /\ (call'.pc # "idle" /\ ~Paired(call'.request)) =>
            UNCHANGED << webhook_logs, next_log_uuid >> ]_vars

\* a call that leaves the owner or the webhook out (or gives it empty) has no
\* log and writes none at any step, and still has its signature checked against
\* the global secret and is dispatched
UnattributedCallWritesNoLog ==
    [][(call'.pc # "idle" /\ ~Paired(call'.request)) =>
            /\ UNCHANGED << webhook_logs, next_log_uuid >>
            /\ call'.webhook_log = None
            /\ SignatureStep =>
                 /\ call'.webhook_secret = github_webhook_secret
                 /\ SignatureDecision(SignatureTruthy(call.request.x_hub_signature_256))
                 /\ call'.verification # "failed" => call'.pc = "dispatch"
            /\ call.pc = "dispatch" =>
                 call' = github_webhook_dispatch(webhook_logs, call).call ]_vars

\* a log is created only for a call that names both
LogOnlyIfPaired ==
    call.pc # "idle" /\ call.webhook_log # None => Paired(call.request)

StoreOps == { "save_webhook_config", "save_webhook_log", "get_webhook_config",
              "get_webhook_log", "list_webhook_configs", "list_webhook_logs" }

\* C37: a store bound to one user raises and writes nothing when it is given a
\* registration or a delivery log of another owner or is asked to list another
\* user's records; every record stored under a user's paths is owned by that
\* user, and so is every record the store returns.
C37_StoreKeepsOwnership ==
    /\ [][(resp'.op \in StoreOps /\ resp'.owner # resp'.self_user_id) =>
              /\ resp'.exc = "ValueError"
              /\ resp'.returned = {}
              /\ UNCHANGED << webhook_configs, webhook_logs >> ]_vars
    /\ [](/\ \A path \in DOMAIN webhook_configs :
                 webhook_configs[path].user_id = path[1]
          /\ \A path \in DOMAIN webhook_logs :
                 webhook_logs[path].user_id = path[1]
          /\ resp.op \in StoreOps =>
                 \A record \in resp.returned : record.user_id = resp.self_user_id)

\* the store of user 1, which holds a log of its own, was handed a log of user 2
C37_Witness ==
    /\ resp.op = "save_webhook_log"
    /\ resp.self_user_id = 1
    /\ resp.owner = 2
    /\ resp.exc = "ValueError"
    /\ DOMAIN webhook_logs = { <<1, 1>> }
    /\ <<1, 2>> \in DOMAIN webhook_configs

\* the registration a stored delivery log refers to is stored under its owner
RefersToRegistration(log) ==
    LET path == get_webhook_config_path(log.user_id, log.webhook_id) IN
    /\ path \in DOMAIN webhook_configs
    /\ webhook_configs[path].user_id = log.user_id

\* C38: every stored delivery log refers to a registration of its owner (no
\* registration is deleted while deliveries arrive, so one that existed when
\* the log was created is still stored); a call that names a webhook which is
\* not a registration of the owner it names creates no log.
C38_LogsReferToRegistrations ==
    \A path \in DOMAIN webhook_logs : RefersToRegistration(webhook_logs[path])

\* the token of the request's Authorization header, if it is a Bearer header
BearerToken(self) ==
    LET auth_header == self.request.Authorization IN
    IF auth_header # None /\ auth_header[1].scheme = "Bearer"
    THEN Some(auth_header[1].credentials) ELSE None

\* the request carries a Bearer token that verifies now
Verifies(self) ==
    /\ BearerToken(self) # None
    /\ get_current_user_from_token(user_store, BearerToken(self)[1], now).status
           = HTTP_200_OK

\* C39: get_user_id never raises on a credential problem. It returns None when
\* the Authorization header is absent, is not a Bearer header, or carries a
\* token that does not verify; it returns the user_id of the token's user when
\* the token verifies, and keeps returning it for the rest of the request.
C39_GetUserIdNeverRaises ==
    [][resp'.op = "get_user_id" =>
          LET self == calls[1] IN
          /\ resp'.raised = "none"
          /\ self._user # None =>
                /\ resp'.returned = Some(self._user[1].user_id)
                /\ calls' = calls
          /\ (self._user = None /\ ~Verifies(self)) =>
                /\ resp'.returned = None
                /\ calls' = calls
          /\ (self._user = None /\ Verifies(self)) =>
                /\ resp'.returned = BearerToken(self)[1].payload.sub
                /\ calls'[1]._user
                       = get_user(user_store, BearerToken(self)[1].payload.sub[1]).user
                /\ calls'[1].request = self.request ]_vars

\* the user id is still returned after the token of the request has stopped
\* verifying
C39_Witness ==
    /\ resp.op = "get_user_id"
    /\ resp.raised = "none"
    /\ resp.returned = Some(1)
    /\ calls[1]._user # None
    /\ ~Verifies(calls[1])

\* a request whose Bearer token does not verify was answered None
C39_WitnessRejected ==
    /\ resp.op = "get_user_id"
    /\ resp.returned = None
    /\ BearerToken(calls[1]) # None
    /\ BearerToken(calls[1])[1].wellformed
    /\ ~Verifies(calls[1])

====
